---- MODULE Spec2Model ----
(***************************************************************************)
(* Model of the NAS CORS file server's access-control gate                 *)
(* (server.js, middleware.js, database.js): path sandboxing, session and   *)
(* role checks, the first-run setup gate and the per-client rate limiter.  *)
(*                                                                         *)
(* Strings whose characters matter (file paths) are sequences of           *)
(* one-character strings; time is counted in minutes.                      *)
(***************************************************************************)
EXTENDS Naturals, Integers, Sequences, FiniteSets, TLC

\* ------------------------------------------------------------------------
\* Bounds of the model
\* ------------------------------------------------------------------------

\* longest requested path string that is enumerated
MaxPathLen == 5

\* ------------------------------------------------------------------------
\* Strings and node's path module (POSIX flavour)
\* ------------------------------------------------------------------------

\* the alphabet requested paths are drawn from
PathChars == {"/", ".", "n", "c"}

\* all strings over PathChars of length at most n
StringsUpTo(n) == UNION {[1..k -> PathChars] : k \in 0..n}

\* String.prototype.startsWith
StartsWith(s, prefix) ==
    /\ Len(prefix) <= Len(s)
    /\ SubSeq(s, 1, Len(prefix)) = prefix

RECURSIVE StripLeadingSlashes(_)
\* requestedPath.replace(/^\/+/, '')
StripLeadingSlashes(s) ==
    IF s # <<>> /\ Head(s) = "/" THEN StripLeadingSlashes(Tail(s)) ELSE s

RECURSIVE SplitAcc(_, _, _)
SplitAcc(s, cur, acc) ==
    IF s = <<>> THEN Append(acc, cur)
    ELSE IF Head(s) = "/" THEN SplitAcc(Tail(s), <<>>, Append(acc, cur))
    ELSE SplitAcc(Tail(s), Append(cur, Head(s)), acc)

\* the segments of a path string, split at every separator
Split(s) == SplitAcc(s, <<>>, <<>>)

RECURSIVE NormSegs(_, _)
\* path.normalize on an absolute path: empty and '.' segments are dropped,
\* '..' removes the segment before it and is dropped at the filesystem root
NormSegs(segs, acc) ==
    IF segs = <<>> THEN acc
    ELSE LET h == Head(segs) IN
         IF h = <<>> \/ h = <<".">> THEN NormSegs(Tail(segs), acc)
         ELSE IF h = <<".", ".">>
              THEN NormSegs(Tail(segs),
                            IF acc = <<>> THEN acc ELSE SubSeq(acc, 1, Len(acc) - 1))
              ELSE NormSegs(Tail(segs), Append(acc, h))

RECURSIVE Join(_)
\* the string of an absolute path given by its segments ("/" for none)
Join(segs) ==
    IF segs = <<>> THEN <<"/">>
    ELSE IF Len(segs) = 1 THEN <<"/">> \o segs[1]
    ELSE Join(SubSeq(segs, 1, Len(segs) - 1)) \o <<"/">> \o segs[Len(segs)]

\* path.resolve(base, p) for an absolute base: an absolute p replaces the
\* base, a relative p is appended to it, and the result is normalised
PathResolve(base, p) ==
    LET raw == IF p # <<>> /\ Head(p) = "/" THEN p ELSE base \o <<"/">> \o p
    IN  Join(NormSegs(Split(raw), <<>>))

\* path.join(dir, item) for an absolute dir and a plain item name
PathJoin(dir, item) == Join(Append(NormSegs(Split(dir), <<>>), item))

\* the directory the server is installed in (__dirname)
dirname == <<"/", "n", "/", "c">>

\* const NAS_ROOT = path.resolve(__dirname, '..')
NAS_ROOT == PathResolve(dirname, <<".", ".">>)

\* const corsPath = path.resolve(__dirname)
corsPath == PathResolve(dirname, <<>>)

isValidPath_NoExclusion(requestedPath) ==
    LET fullPath == PathResolve(NAS_ROOT, StripLeadingSlashes(requestedPath))
    IN  StartsWith(fullPath, NAS_ROOT)

isValidPath_BelowRootOnly(requestedPath) ==
    LET fullPath == PathResolve(NAS_ROOT, StripLeadingSlashes(requestedPath))
    IN  StartsWith(fullPath, NAS_ROOT \o <<"/">>) /\ ~StartsWith(fullPath, corsPath)

\* function isValidPath(requestedPath)
isValidPath(requestedPath) ==
    LET fullPath == PathResolve(NAS_ROOT, StripLeadingSlashes(requestedPath))
    IN  StartsWith(fullPath, NAS_ROOT) /\ ~StartsWith(fullPath, corsPath)

\* ------------------------------------------------------------------------
\* The filesystem the server runs on
\* ------------------------------------------------------------------------

\* the directories: /, the root /n, the installation directory /n/c, a
\* directory /n/n inside the root and a directory /nn beside the root
FsDirs ==
    { <<"/">>,
      <<"/", "n">>,
      <<"/", "n", "/", "c">>,
      <<"/", "n", "/", "n">>,
      <<"/", "n", "n">> }

\* the files: /c outside the root, /n/cc beside the installation directory,
\* /n/c/n inside it, /n/n/c inside the root and /nn/c beside the root
FsFiles ==
    { <<"/", "c">>,
      <<"/", "n", "/", "c", "c">>,
      <<"/", "n", "/", "c", "/", "n">>,
      <<"/", "n", "/", "n", "/", "c">>,
      <<"/", "n", "n", "/", "c">> }

\* fs.existsSync
existsSync(p) == p \in FsDirs \cup FsFiles

\* fs.statSync(p).isDirectory()
isDirectory(p) == p \in FsDirs

\* fs.readdirSync: the names of the entries of a directory
readdirSync(dir) ==
    { s \in StringsUpTo(2) :
        /\ s # <<>>
        /\ \A i \in 1..Len(s) : s[i] # "/"
        /\ existsSync(PathJoin(dir, s)) }

\* ------------------------------------------------------------------------
\* State
\* ------------------------------------------------------------------------

VARIABLES
    users,      \* the users table: row i is the user with id i
    settings,   \* the settings table: key -> [value, updated_by]
    sessions,   \* the session store: session cookie -> session data
    clients,    \* the Map of every rate limiter: limiter -> (ip -> window)
    now,        \* Date.now(), in minutes
    sweepDue,   \* the limiters whose cleanup timer has expired and not yet run
    resp,       \* the request handled last and the response it got
    target,     \* the file path the client is after (an input of the run)
    everOperational,  \* history: setup has been completed at some point
    setups,     \* the POST /api/setup request each browser has in flight
    flights,    \* the downloads of one client in flight, by their position
    i18n        \* the I18n object, the language each session prefers, and
                \* the logins in flight with the language selected for them

vars == <<users, settings, sessions, clients, now, sweepDue, resp, target,
          everOperational, setups, flights, i18n>>

\* the browsers (session cookies) that send requests
Cookies == {"k1", "k2"}

Usernames == {"alice", "bob"}
Passwords == {"pw1", "pw2"}
SettingValues == {"true", "false"}

\* a session that carries no user (saveUninitialized: false)
NoSession == [userId |-> 0, username |-> "", role |-> ""]

\* no POST /api/setup of the browser is in flight
NoSetup == [pc |-> "idle", ip |-> "", username |-> "", password |-> "",
            completed |-> FALSE, adminId |-> 0]

\* no download is in flight; counted and allowed are history: the downloads
\* the download limiter counted, and passed on, in the client's current window
NoFlights == [pending |-> 0, gated |-> 0, streaming |-> 0, last |-> "",
              counted |-> 0, allowed |-> 0]

\* the keys of `translations`
Languages == {"en", "es"}

\* this.defaultLanguage = 'en'
defaultLanguage == "en"

\* no login of the browser is in flight
NoRequest == [pc |-> "idle", language |-> ""]

\* new I18n(): currentLanguage is the default; no session has a language, no
\* login is in flight and no translated answer has been sent (answer is the
\* last translated answer: the language selected for its request and the
\* language its message was translated to)
NoI18n == [currentLanguage |-> defaultLanguage,
           session |-> [c \in {"k1", "k2"} |-> ""],
           reqs |-> [c \in {"k1", "k2"} |-> NoRequest],
           answer |-> [cookie |-> "", selected |-> "", used |-> ""]]

\* req.user when no user is attached (undefined)
NoUser == [id |-> 0, username |-> "", role |-> ""]

\* bcrypt.hash and bcrypt.compare
Hash(password) == <<"bcrypt", password>>
Compare(password, hash) == hash = Hash(password)

\* ------------------------------------------------------------------------
\* database.js
\* ------------------------------------------------------------------------

getUserById_AnyRow(id) ==
    IF id \in 1..Len(users)
    THEN [id |-> id, username |-> users[id].username, role |-> users[id].role]
    ELSE NoUser

\* SELECT * FROM users WHERE id = ? AND is_active = 1
getUserById(id) ==
    IF id \in 1..Len(users) /\ users[id].is_active = 1
    THEN [id |-> id, username |-> users[id].username, role |-> users[id].role]
    ELSE NoUser

getUserByUsername_AnyRow(username) ==
    LET ids == {i \in 1..Len(users) : users[i].username = username}
    IN  IF ids = {} THEN 0 ELSE CHOOSE i \in ids : TRUE

\* SELECT * FROM users WHERE username = ? AND is_active = 1
getUserByUsername(username) ==
    LET ids == {i \in 1..Len(users) :
                   users[i].username = username /\ users[i].is_active = 1}
    IN  IF ids = {} THEN 0 ELSE CHOOSE i \in ids : TRUE

validatePassword_NoCompare(username, password) == getUserByUsername(username)

\* validatePassword(username, password): the id of the validated user, 0
\* when the user is unknown, inactive or the password does not match
validatePassword(username, password) ==
    LET id == getUserByUsername(username)
    IN  IF id # 0 /\ Compare(password, users[id].password_hash) THEN id ELSE 0

\* the UNIQUE constraint on users.username
UsernameTaken(username) == \E i \in 1..Len(users) : users[i].username = username

\* createUser: the users table after the INSERT (id = lastID = row number)
createUser(username, password, role) ==
    Append(users, [username |-> username, password_hash |-> Hash(password),
                   role |-> role, is_active |-> 1])

\* isSetupCompleted: setupStatus === 'true'
isSetupCompleted == settings["setup_completed"].value = "true"

\* hasAdminUser: COUNT(*) ... WHERE role = "admin" AND is_active = 1 > 0
hasAdminUser ==
    \E i \in 1..Len(users) : users[i].role = "admin" /\ users[i].is_active = 1

setSetting_Unattributed(key, value, updatedBy) ==
    [settings EXCEPT ![key] = [value |-> value, updated_by |-> 0]]

\* setSetting: INSERT OR REPLACE INTO settings (key, value, updated_at,
\* updated_by); updatedBy is 0 for null
setSetting(key, value, updatedBy) ==
    [settings EXCEPT ![key] = [value |-> value, updated_by |-> updatedBy]]

\* ------------------------------------------------------------------------
\* middleware.js: the rate limiter
\* ------------------------------------------------------------------------

LimiterNames == {"loginLimiter", "generalLimiter", "fileLimiter"}

\* createRateLimiter(15 * 60 * 1000, 10)
LoginWindow == 15
LoginMax == 10
\* createRateLimiter(15 * 60 * 1000, 1000)
GeneralWindow == 15
GeneralMax == 1000
\* createRateLimiter(60 * 1000, 500)
FileWindow == 1
FileMax == 500
\* setInterval(..., 5 * 60 * 1000)
SweepInterval == 5

WindowOf(l) ==
    CASE l = "loginLimiter" -> LoginWindow
      [] l = "generalLimiter" -> GeneralWindow
      [] l = "fileLimiter" -> FileWindow

MaxOf(l) ==
    CASE l = "loginLimiter" -> LoginMax
      [] l = "generalLimiter" -> GeneralMax
      [] l = "fileLimiter" -> FileMax

\* the window of a client after one more request is counted in it
CountRequest(map, windowMs, clientId) ==
    IF clientId \notin DOMAIN map
    THEN [count |-> 1, resetTime |-> now + windowMs]
    ELSE IF now > map[clientId].resetTime
         THEN [count |-> 1, resetTime |-> now + windowMs]
         ELSE [map[clientId] EXCEPT !.count = @ + 1]

Allowed_OffByOne(map, max, clientId, window) ==
    clientId \notin DOMAIN map \/ ~(window.count >= max)

Allowed_BeforeCounting(map, max, clientId, window) ==
    clientId \notin DOMAIN map \/ ~(map[clientId].count > max)

\* whether the limiter calls next(): a client's first request is passed on
\* before the count is compared, later ones unless count > max
Allowed(map, max, clientId, window) ==
    clientId \notin DOMAIN map \/ ~(window.count > max)

\* the middleware createRateLimiter returns, run on the Map `map`
rateLimiter(map, windowMs, max, clientId) ==
    LET window == CountRequest(map, windowMs, clientId)
    IN  [map |-> (clientId :> window) @@ map,
         allowed |-> Allowed(map, max, clientId, window)]

sweep_AtResetTime(map) ==
    LET keep == {ip \in DOMAIN map : ~(now >= map[ip].resetTime)}
    IN  [ip \in keep |-> map[ip]]

\* the cleanup timer of one limiter: every expired window is deleted
sweep(map) ==
    LET keep == {ip \in DOMAIN map : ~(now > map[ip].resetTime)}
    IN  [ip \in keep |-> map[ip]]

\* ------------------------------------------------------------------------
\* Request paths (req.path as its segments: /api/browse is <<"api","browse">>)
\* ------------------------------------------------------------------------

\* req.path.startsWith(prefix) for a prefix that ends a segment
UrlStartsWith(path, prefix) ==
    /\ Len(prefix) <= Len(path)
    /\ SubSeq(path, 1, Len(prefix)) = prefix

\* req.path.startsWith('/api/')
IsApiPath(path) == Len(path) >= 2 /\ path[1] = "api"

Mounted_AuthOnly(path) ==
    IF UrlStartsWith(path, <<"api", "auth">>) THEN <<"loginLimiter">> ELSE <<>>

Mounted_LoginRouteOnly(path) ==
    (IF UrlStartsWith(path, <<"api", "auth", "login">>) THEN <<"loginLimiter">> ELSE <<>>)
    \o (IF UrlStartsWith(path, <<"api">>) THEN <<"generalLimiter">> ELSE <<>>)
    \o (IF UrlStartsWith(path, <<"download">>) THEN <<"fileLimiter">> ELSE <<>>)

Mounted_DownloadInApi(path) ==
    (IF UrlStartsWith(path, <<"api", "auth">>) THEN <<"loginLimiter">> ELSE <<>>)
    \o (IF UrlStartsWith(path, <<"api">>) \/ UrlStartsWith(path, <<"download">>)
        THEN <<"generalLimiter">> ELSE <<>>)
    \o (IF UrlStartsWith(path, <<"download">>) THEN <<"fileLimiter">> ELSE <<>>)

\* app.use('/api/auth', loginLimiter); app.use('/api', generalLimiter);
\* app.use('/download', fileLimiter): the limiters a path runs through
Mounted(path) ==
    (IF UrlStartsWith(path, <<"api", "auth">>) THEN <<"loginLimiter">> ELSE <<>>)
    \o (IF UrlStartsWith(path, <<"api">>) THEN <<"generalLimiter">> ELSE <<>>)
    \o (IF UrlStartsWith(path, <<"download">>) THEN <<"fileLimiter">> ELSE <<>>)

RECURSIVE RunLimiters(_, _, _)
\* the mounted limiters in order; the first that rejects ends the request
RunLimiters(ls, ip, acc) ==
    IF ls = <<>> \/ ~acc.allowed THEN acc
    ELSE LET l == Head(ls)
             r == rateLimiter(acc.clients[l], WindowOf(l), MaxOf(l), ip)
         IN  RunLimiters(Tail(ls), ip,
                [clients |-> [acc.clients EXCEPT ![l] = r.map],
                 allowed |-> r.allowed,
                 stages |-> acc.stages \cup {l},
                 logs |-> IF r.allowed THEN acc.logs
                          ELSE acc.logs \cup {"AUTH: RATE_LIMIT_EXCEEDED"}])

\* ------------------------------------------------------------------------
\* middleware.js: the gates.  A gate either calls next() or ends the
\* request with a response.
\* ------------------------------------------------------------------------

Pass == [next |-> TRUE, status |-> 0, body |-> "", logs |-> {}]
Reply(status, body, logs) ==
    [next |-> FALSE, status |-> status, body |-> body, logs |-> logs]

requireAuth_Always(session, path) == Pass

\* const requireAuth = (req, res, next) => ...
requireAuth(session, path) ==
    IF session.userId # 0 THEN Pass
    ELSE IF IsApiPath(path) THEN Reply(401, "Authentication required", {})
    ELSE Reply(302, "redirect:/login", {})

requireAdmin_SessionRole(session, fault) ==
    IF session.userId = 0 THEN Reply(401, "Authentication required", {})
    ELSE IF session.role # "admin"
         THEN Reply(403, "Admin privileges required", {"AUTH: ADMIN_ACCESS_DENIED"})
         ELSE Pass

requireAdmin_ErrorAsForbidden(session, fault) ==
    IF session.userId = 0 THEN Reply(401, "Authentication required", {})
    ELSE LET user == IF fault = "requireAdmin" THEN NoUser
                     ELSE getUserById(session.userId)
         IN  IF user = NoUser \/ user.role # "admin"
             THEN Reply(403, "Admin privileges required",
                        {"AUTH: ADMIN_ACCESS_DENIED"})
             ELSE Pass

\* const requireAdmin = async (req, res, next) => ...
\* fault = "requireAdmin": database.getUserById rejects
requireAdmin(session, fault) ==
    IF session.userId = 0 THEN Reply(401, "Authentication required", {})
    ELSE IF fault = "requireAdmin"
         THEN Reply(500, "Internal server error", {"ERROR: Admin middleware error"})
         ELSE LET user == getUserById(session.userId)
              IN  IF user = NoUser \/ user.role # "admin"
                  THEN Reply(403, "Admin privileges required",
                             {"AUTH: ADMIN_ACCESS_DENIED"})
                  ELSE Pass

\* the paths checkSetup lets through while setup is required
SetupAllowList(path) ==
    \/ path = <<"setup">>
    \/ UrlStartsWith(path, <<"api", "setup">>)
    \/ UrlStartsWith(path, <<"api", "translations">>)
    \/ UrlStartsWith(path, <<"api", "language">>)
    \/ (Len(path) >= 2 /\ path[1] = "assets")

\* the setup routes checkSetup blocks once setup is completed
IsSetupPath(path) ==
    path = <<"setup">> \/ UrlStartsWith(path, <<"api", "setup">>)

checkSetup_ErrorPassesOn(path, fault) ==
    IF fault \in {"isSetupCompleted", "hasAdminUser"}
    THEN Pass
    ELSE IF ~isSetupCompleted \/ ~hasAdminUser
    THEN IF SetupAllowList(path) THEN Pass
         ELSE IF IsApiPath(path) THEN Reply(200, "Initial setup required", {})
         ELSE Reply(302, "redirect:/setup", {})
    ELSE IF IsSetupPath(path)
         THEN IF IsApiPath(path) THEN Reply(403, "Setup already completed", {})
              ELSE Reply(302, "redirect:/", {})
         ELSE Pass

checkSetup_NoBlock(path, fault) ==
    IF ~isSetupCompleted \/ ~hasAdminUser
    THEN IF SetupAllowList(path) THEN Pass
         ELSE IF IsApiPath(path) THEN Reply(200, "Initial setup required", {})
         ELSE Reply(302, "redirect:/setup", {})
    ELSE Pass

checkSetup_FlagOnly(path, fault) ==
    IF ~isSetupCompleted
    THEN IF SetupAllowList(path) THEN Pass
         ELSE IF IsApiPath(path) THEN Reply(200, "Initial setup required", {})
         ELSE Reply(302, "redirect:/setup", {})
    ELSE IF IsSetupPath(path)
         THEN IF IsApiPath(path) THEN Reply(403, "Setup already completed", {})
              ELSE Reply(302, "redirect:/", {})
         ELSE Pass

\* const checkSetup = async (req, res, next) => ...
\* fault = "isSetupCompleted" / "hasAdminUser": that read rejects
checkSetup(path, fault) ==
    IF fault \in {"isSetupCompleted", "hasAdminUser"}
    THEN IF IsApiPath(path)
         THEN Reply(500, "Internal server error",
                    {"ERROR: Setup check middleware error"})
         ELSE Reply(302, "redirect:/setup", {"ERROR: Setup check middleware error"})
    ELSE IF ~isSetupCompleted \/ ~hasAdminUser
    THEN IF SetupAllowList(path) THEN Pass
         ELSE IF IsApiPath(path) THEN Reply(200, "Initial setup required", {})
         ELSE Reply(302, "redirect:/setup", {})
    ELSE IF IsSetupPath(path)
         THEN IF IsApiPath(path) THEN Reply(403, "Setup already completed", {})
              ELSE Reply(302, "redirect:/", {})
         ELSE Pass

\* const attachUser = async (req, res, next) => ...: req.user after it
\* fault = "attachUser": database.getUserById rejects (logged, ignored)
attachUser(session, fault) ==
    IF session.userId # 0 /\ fault # "attachUser"
    THEN getUserById(session.userId)
    ELSE NoUser

\* ------------------------------------------------------------------------
\* server.js: the route handlers.  Each yields the outcome of a request:
\* its response, the stages that ran, what was logged, the filesystem
\* calls made, and the store and session it leaves behind.
\* ------------------------------------------------------------------------

\* most users the table is let to hold
MaxUsers == 2

\* the outcome of a request that has changed nothing yet
Base(c) ==
    [status |-> 0, body |-> "", stages |-> {"attachUser"}, logs |-> {}, fsOps |-> {},
     users |-> users, settings |-> settings, session |-> sessions[c]]

Rejected_ThenNext(o, gate, g) ==
    [o EXCEPT !.status = g.status, !.body = g.body,
              !.stages = @ \cup {gate, "handler"}, !.logs = @ \cup g.logs]

\* a gate ran and ended the request
Rejected(o, gate, g) ==
    [o EXCEPT !.status = g.status, !.body = g.body,
              !.stages = @ \cup {gate}, !.logs = @ \cup g.logs]

\* a gate ran and called next()
Passed(o, gate) == [o EXCEPT !.stages = @ \cup {gate}]

\* the route handler ran and answered
Answer(o, status, body, logs) ==
    [o EXCEPT !.status = status, !.body = body,
              !.stages = @ \cup {"handler"}, !.logs = @ \cup logs]

\* a TypeError thrown out of a handler (req.user.username with req.user
\* undefined, in the try block and again in its catch block) reaches the
\* error handling middleware: app.use((error, req, res, next) => ...)
Unhandled(o) == Answer(o, 500, "internalError", {"ERROR: Unhandled error"})

\* logFileAccess(action, requestedPath, req.user.username, ...) and the
\* response after it; throws when no user is attached to the request
FileAnswer(o, reqUser, status, body, log) ==
    IF reqUser = NoUser THEN Unhandled(o) ELSE Answer(o, status, body, {log})

\* app.get('/setup', checkSetup, ...)
getSetup(c, fault) ==
    LET g == checkSetup(<<"setup">>, fault)
    IN  IF ~g.next THEN Rejected(Base(c), "checkSetup", g)
        ELSE Answer(Passed(Base(c), "checkSetup"), 200, "setup.html", {})

\* app.get('/login', ...)
getLogin(c) == Answer(Base(c), 200, "login.html", {})

\* app.get('/admin', requireAdmin, ...)
getAdmin(c, fault) ==
    LET g == requireAdmin(sessions[c], fault)
    IN  IF ~g.next THEN Rejected(Base(c), "requireAdmin", g)
        ELSE Answer(Passed(Base(c), "requireAdmin"), 200, "admin.html", {})

\* app.get('/', checkSetup, requireAuth, ...)
getRoot(c, fault) ==
    LET g == checkSetup(<<>>, fault)
        a == requireAuth(sessions[c], <<>>)
    IN  IF ~g.next THEN Rejected(Base(c), "checkSetup", g)
        ELSE IF ~a.next THEN Rejected(Passed(Base(c), "checkSetup"), "requireAuth", a)
        ELSE Answer(Passed(Passed(Base(c), "checkSetup"), "requireAuth"),
                    200, "index.html", {})

postSetup_RollsBack(c, username, password, fault) ==
    LET o == Base(c)
        created == [o EXCEPT !.users = createUser(username, password, "admin")]
    IN  IF fault \in {"isSetupCompleted", "hasAdminUser"}
        THEN Answer(o, 500, "setupError", {"ERROR: Setup error"})
        ELSE IF isSetupCompleted /\ hasAdminUser
        THEN Answer(o, 400, "Setup already completed", {})
        ELSE IF username = "" \/ password = ""
        THEN Answer(o, 400, "Username and password are required", {})
        ELSE IF fault \in {"createUser", "setSetting"} \/ UsernameTaken(username)
        THEN Answer(o, 500, "setupError", {"ERROR: Setup error"})
        ELSE Answer([created EXCEPT !.settings = setSetting("setup_completed", "true",
                                                       Len(users) + 1)],
                    200, "setupComplete", {"SYSTEM: Initial setup completed"})

postSetup_NoGuard(c, username, password, fault) ==
    LET o == Base(c)
        created == [o EXCEPT !.users = createUser(username, password, "admin")]
    IN  IF username = "" \/ password = ""
        THEN Answer(o, 400, "Username and password are required", {})
        ELSE IF fault = "createUser" \/ UsernameTaken(username)
        THEN Answer(o, 500, "setupError", {"ERROR: Setup error"})
        ELSE Answer([created EXCEPT !.settings = setSetting("setup_completed", "true",
                                                       Len(users) + 1)],
                    200, "setupComplete", {"SYSTEM: Initial setup completed"})

\* app.post('/api/setup', ...)
\* fault: the database call of the handler that rejects, if any
postSetup(c, username, password, fault) ==
    LET o == Base(c)
        created == [o EXCEPT !.users = createUser(username, password, "admin")]
    IN  IF fault \in {"isSetupCompleted", "hasAdminUser"}
        THEN Answer(o, 500, "setupError", {"ERROR: Setup error"})
        ELSE IF isSetupCompleted /\ hasAdminUser
        THEN Answer(o, 400, "Setup already completed", {})
        ELSE IF username = "" \/ password = ""
        THEN Answer(o, 400, "Username and password are required", {})
        ELSE IF fault = "createUser" \/ UsernameTaken(username)
        THEN Answer(o, 500, "setupError", {"ERROR: Setup error"})
        ELSE IF fault = "setSetting"
        THEN Answer(created, 500, "setupError", {"ERROR: Setup error"})
        ELSE Answer([created EXCEPT !.settings = setSetting("setup_completed", "true",
                                                       Len(users) + 1)],
                    200, "setupComplete", {"SYSTEM: Initial setup completed"})

\* app.post('/api/auth/login', ...)
postLogin(c, username, password, fault) ==
    LET o == Base(c)
        id == validatePassword(username, password)
        loggedIn == [o EXCEPT !.session = [userId |-> id,
                                           username |-> users[id].username,
                                           role |-> users[id].role]]
    IN  IF username = "" \/ password = ""
        THEN Answer(o, 400, "invalidCredentials", {})
        ELSE IF fault = "validatePassword"
        THEN Answer(o, 500, "internalError", {"ERROR: Login error"})
        ELSE IF id = 0
        THEN Answer(o, 401, "invalidCredentials", {"AUTH: LOGIN_FAILED"})
        ELSE IF fault = "updateLastLogin"
        THEN Answer(loggedIn, 500, "internalError", {"ERROR: Login error"})
        ELSE Answer(loggedIn, 200, "loginSuccess", {"AUTH: LOGIN_SUCCESS"})

\* app.post('/api/auth/logout', requireAuth, ...)
\* fault = "destroy": req.session.destroy reports an error
postLogout(c, fault) ==
    LET a == requireAuth(sessions[c], <<"api", "auth", "logout">>)
        o == Passed(Base(c), "requireAuth")
    IN  IF ~a.next THEN Rejected(Base(c), "requireAuth", a)
        ELSE IF fault = "destroy"
        THEN Answer(o, 500, "internalError", {"ERROR: Logout error"})
        ELSE Answer([o EXCEPT !.session = NoSession], 200, "logoutSuccess",
                    {"AUTH: LOGOUT"})

\* app.get('/api/auth/status', ...)
getAuthStatus(c, fault) ==
    IF attachUser(sessions[c], fault) # NoUser
    THEN Answer(Base(c), 200, "authenticated", {})
    ELSE Answer(Base(c), 200, "not authenticated", {})

\* app.get('/api/translations', ...)
getTranslations(c) == Answer(Base(c), 200, "translations", {})

\* app.get('/api/settings', ...)
getSettings(c, fault) ==
    IF fault = "getAllSettings"
    THEN Answer(Base(c), 500, "internalError", {"ERROR: Get settings error"})
    ELSE Answer(Base(c), 200, "settings", {})

\* updateUser(id, updates): the table after the UPDATE and its row count.
\* The statement is built and run before the callback of bcrypt.hash has
\* added password_hash, so a password in `updates` is in neither.
updateUser(id, updates) ==
    LET keys == DOMAIN updates \ {"id", "password"}
        row == [f \in DOMAIN users[id] |->
                   IF f \in keys THEN updates[f] ELSE users[id][f]]
    IN  IF keys = {} \/ id \notin 1..Len(users)
        THEN [users |-> users, changes |-> 0]
        ELSE [users |-> [users EXCEPT ![id] = row], changes |-> 1]

deleteUser_AnyRole(id) ==
    IF id \in 1..Len(users)
    THEN [users |-> [users EXCEPT ![id].is_active = 0], changes |-> 1]
    ELSE [users |-> users, changes |-> 0]

deleteUser_RemovesRow(id) ==
    IF id \in 1..Len(users) /\ users[id].role # "admin"
    THEN [users |-> SubSeq(users, 1, id - 1) \o SubSeq(users, id + 1, Len(users)),
          changes |-> 1]
    ELSE [users |-> users, changes |-> 0]

\* deleteUser(id): UPDATE users SET is_active = 0 WHERE id = ? AND role != "admin"
deleteUser(id) ==
    IF id \in 1..Len(users) /\ users[id].role # "admin"
    THEN [users |-> [users EXCEPT ![id].is_active = 0], changes |-> 1]
    ELSE [users |-> users, changes |-> 0]

\* app.get('/api/admin/users', requireAdmin, ...)
getUsers(c, fault) ==
    LET g == requireAdmin(sessions[c], fault)
        o == Passed(Base(c), "requireAdmin")
    IN  IF ~g.next THEN Rejected(Base(c), "requireAdmin", g)
        ELSE IF fault = "getAllUsers"
        THEN Answer(o, 500, "internalError", {"ERROR: Get users error"})
        ELSE Answer(o, 200, "users", {})

\* app.post('/api/admin/users', requireAdmin, ...); role is role || 'user'
postUser(c, username, password, role, fault) ==
    LET g == requireAdmin(sessions[c], fault)
        o == Passed(Base(c), "requireAdmin")
    IN  IF ~g.next THEN Rejected(Base(c), "requireAdmin", g)
        ELSE IF username = "" \/ password = ""
        THEN Answer(o, 400, "Username and password are required", {})
        ELSE IF fault = "createUser" \/ UsernameTaken(username)
        THEN Answer(o, 500, "internalError", {"ERROR: Create user error"})
        ELSE Answer([o EXCEPT !.users =
                        createUser(username, password, IF role = "" THEN "user" ELSE role)],
                    200, "userCreated", {"ADMIN: USER_CREATED"})

\* app.put('/api/admin/users/:id', requireAdmin, ...)
putUser(c, id, updates, fault) ==
    LET g == requireAdmin(sessions[c], fault)
        o == Passed(Base(c), "requireAdmin")
        result == updateUser(id, updates)
    IN  IF ~g.next THEN Rejected(Base(c), "requireAdmin", g)
        ELSE IF fault = "updateUser"
        THEN Answer(o, 500, "internalError", {"ERROR: Update user error"})
        ELSE IF result.changes = 0
        THEN Answer(o, 404, "User not found", {})
        ELSE Answer([o EXCEPT !.users = result.users], 200, "userUpdated",
                    {"ADMIN: USER_UPDATED"})

\* app.delete('/api/admin/users/:id', requireAdmin, ...)
deleteUserRoute(c, id, fault) ==
    LET g == requireAdmin(sessions[c], fault)
        o == Passed(Base(c), "requireAdmin")
        result == deleteUser(id)
    IN  IF ~g.next THEN Rejected(Base(c), "requireAdmin", g)
        ELSE IF id = sessions[c].userId
        THEN Answer(o, 400, "Cannot delete your own account", {})
        ELSE IF fault = "deleteUser"
        THEN Answer(o, 500, "internalError", {"ERROR: Delete user error"})
        ELSE IF result.changes = 0
        THEN Answer(o, 404, "User not found", {})
        ELSE Answer([o EXCEPT !.users = result.users], 200, "userDeleted",
                    {"ADMIN: USER_DELETED"})

\* app.put('/api/admin/settings', requireAdmin, ...) with the body
\* {settings: {key: value}}
putSettings(c, key, value, fault) ==
    LET g == requireAdmin(sessions[c], fault)
        o == Passed(Base(c), "requireAdmin")
    IN  IF ~g.next THEN Rejected(Base(c), "requireAdmin", g)
        ELSE IF fault = "setSetting"
        THEN Answer(o, 500, "internalError", {"ERROR: Update settings error"})
        ELSE Answer([o EXCEPT !.settings = setSetting(key, value, sessions[c].userId)], 200,
                    "Settings updated successfully", {"ADMIN: SETTINGS_UPDATED"})

\* the filesystem calls of the directory listing in /api/browse
ListingOps(fullPath) ==
    {<<"existsSync", fullPath>>, <<"statSync", fullPath>>, <<"readdirSync", fullPath>>}
    \cup {<<"statSync", PathJoin(fullPath, item)>> : item \in readdirSync(fullPath)}

\* the handler of app.get('/api/browse', checkSetup, requireAuth, ...)
browseHandler(o, query, reqUser) ==
    LET requestedPath == IF query = <<>> THEN <<"/">> ELSE query
        fullPath == PathResolve(NAS_ROOT, StripLeadingSlashes(requestedPath))
        checked == Passed(o, "isValidPath")
    IN  IF ~isValidPath(requestedPath)
        THEN FileAnswer(checked, reqUser, 403, "fileAccessDenied", "FILE: BROWSE_DENIED")
        ELSE IF ~existsSync(fullPath)
        THEN FileAnswer([checked EXCEPT !.fsOps = {<<"existsSync", fullPath>>}],
                        reqUser, 404, "fileNotFound", "FILE: BROWSE_NOT_FOUND")
        ELSE IF ~isDirectory(fullPath)
        THEN Answer([checked EXCEPT !.fsOps = {<<"existsSync", fullPath>>,
                                                <<"statSync", fullPath>>}],
                    400, "Path is not a directory", {})
        ELSE FileAnswer([checked EXCEPT !.fsOps = ListingOps(fullPath)],
                        reqUser, 200, "listing", "FILE: BROWSE_SUCCESS")

downloadHandler_NoDirectoryCheck(o, requestedPath, reqUser) ==
    LET fullPath == PathResolve(NAS_ROOT, requestedPath)
        checked == Passed(o, "isValidPath")
        found == [checked EXCEPT !.fsOps = {<<"existsSync", fullPath>>,
                                            <<"statSync", fullPath>>}]
    IN  IF ~isValidPath(requestedPath)
        THEN FileAnswer(checked, reqUser, 403, "fileAccessDenied", "FILE: DOWNLOAD_DENIED")
        ELSE IF ~existsSync(fullPath)
        THEN FileAnswer([checked EXCEPT !.fsOps = {<<"existsSync", fullPath>>}],
                        reqUser, 404, "fileNotFound", "FILE: DOWNLOAD_NOT_FOUND")
        ELSE IF reqUser = NoUser THEN Unhandled(found)
        ELSE Answer([found EXCEPT !.fsOps = @ \cup {<<"createReadStream", fullPath>>}],
                    200, "file", {"FILE: DOWNLOAD_SUCCESS"})

\* the handler of app.get('/download/*', checkSetup, requireAuth, ...)
downloadHandler(o, requestedPath, reqUser) ==
    LET fullPath == PathResolve(NAS_ROOT, requestedPath)
        checked == Passed(o, "isValidPath")
        found == [checked EXCEPT !.fsOps = {<<"existsSync", fullPath>>,
                                            <<"statSync", fullPath>>}]
    IN  IF ~isValidPath(requestedPath)
        THEN FileAnswer(checked, reqUser, 403, "fileAccessDenied", "FILE: DOWNLOAD_DENIED")
        ELSE IF ~existsSync(fullPath)
        THEN FileAnswer([checked EXCEPT !.fsOps = {<<"existsSync", fullPath>>}],
                        reqUser, 404, "fileNotFound", "FILE: DOWNLOAD_NOT_FOUND")
        ELSE IF isDirectory(fullPath)
        THEN FileAnswer(found, reqUser, 400, "directoryError", "FILE: DOWNLOAD_DIRECTORY")
        ELSE IF reqUser = NoUser THEN Unhandled(found)
        ELSE Answer([found EXCEPT !.fsOps = @ \cup {<<"createReadStream", fullPath>>}],
                    200, "file", {"FILE: DOWNLOAD_SUCCESS"})

\* checkSetup and requireAuth in front of a file handler
Gated(c, path, fault) ==
    LET g == checkSetup(path, fault)
        a == requireAuth(sessions[c], path)
    IN  IF ~g.next THEN Rejected(Base(c), "checkSetup", g)
        ELSE IF ~a.next THEN Rejected(Passed(Base(c), "checkSetup"), "requireAuth", a)
        ELSE Passed(Passed(Base(c), "checkSetup"), "requireAuth")

\* app.get('/api/browse', checkSetup, requireAuth, ...)
getBrowse(c, query, fault) ==
    LET o == Gated(c, <<"api", "browse">>, fault)
    IN  IF "requireAuth" \in o.stages /\ o.status = 0
        THEN browseHandler(o, query, attachUser(sessions[c], fault))
        ELSE o

\* app.get('/download/*', checkSetup, requireAuth, ...)
getDownload(c, requestedPath, fault) ==
    LET o == Gated(c, <<"download", "*">>, fault)
    IN  IF "requireAuth" \in o.stages /\ o.status = 0
        THEN downloadHandler(o, requestedPath, attachUser(sessions[c], fault))
        ELSE o

\* ------------------------------------------------------------------------
\* The state machine
\* ------------------------------------------------------------------------

\* the derived SetupState: OPERATIONAL when both conditions hold
Operational == isSetupCompleted /\ hasAdminUser

\* a request that a rate limiter ended: res.status(429)
TooManyRequests(c, lim) ==
    [status |-> 429, body |-> "Too many requests", stages |-> {}, logs |-> {},
     fsOps |-> {}, users |-> users, settings |-> settings, session |-> sessions[c]]

\* One request from browser c at address ip runs through the middleware
\* stack of the app: the limiters mounted on its path, then (attachUser and)
\* its route, whose outcome is `out`.
Handle(route, path, c, ip, args, fault, out) ==
    \E lim \in {RunLimiters(Mounted(path), ip,
                  [clients |-> clients, allowed |-> TRUE, stages |-> {}, logs |-> {}])} :
      \E fin \in {IF lim.allowed THEN out ELSE TooManyRequests(c, lim)} :
        /\ Len(fin.users) <= MaxUsers
        /\ clients' = lim.clients
        /\ users' = fin.users
        /\ settings' = fin.settings
        /\ sessions' = [sessions EXCEPT ![c] = fin.session]
        /\ resp' = [route |-> route, path |-> path, cookie |-> c, ip |-> ip,
                    args |-> args, fault |-> fault,
                    status |-> fin.status, body |-> fin.body,
                    stages |-> lim.stages \cup fin.stages,
                    logs |-> lim.logs \cup fin.logs, fsOps |-> fin.fsOps]
        /\ everOperational' = (everOperational \/ Operational')
        /\ UNCHANGED <<now, sweepDue, target, setups, flights, i18n>>

\* the requests counted so far in the windows a path runs through stay
\* below cap
Budget(path, ip, cap) ==
    \A i \in 1..Len(Mounted(path)) :
        LET map == clients[Mounted(path)[i]]
        IN  ip \in DOMAIN map => map[ip].count < cap

GetSetup(c, ip, fault) ==
    Handle("GET /setup", <<"setup">>, c, ip, <<>>, fault, getSetup(c, fault))

GetLogin(c, ip) ==
    Handle("GET /login", <<"login">>, c, ip, <<>>, "none", getLogin(c))

GetAdmin(c, ip, fault) ==
    Handle("GET /admin", <<"admin">>, c, ip, <<>>, fault, getAdmin(c, fault))

GetRoot(c, ip, fault) ==
    Handle("GET /", <<>>, c, ip, <<>>, fault, getRoot(c, fault))

PostSetup(c, ip, username, password, fault) ==
    Handle("POST /api/setup", <<"api", "setup">>, c, ip, <<username, password>>, fault,
           postSetup(c, username, password, fault))

PostLogin(c, ip, username, password, fault) ==
    Handle("POST /api/auth/login", <<"api", "auth", "login">>, c, ip,
           <<username, password>>, fault,
           postLogin(c, username, password, fault))

PostLogout(c, ip, fault) ==
    Handle("POST /api/auth/logout", <<"api", "auth", "logout">>, c, ip, <<>>, fault,
           postLogout(c, fault))

GetAuthStatus(c, ip, fault) ==
    Handle("GET /api/auth/status", <<"api", "auth", "status">>, c, ip, <<>>, fault,
           getAuthStatus(c, fault))

GetTranslations(c, ip) ==
    Handle("GET /api/translations", <<"api", "translations">>, c, ip, <<>>, "none",
           getTranslations(c))

GetSettings(c, ip, fault) ==
    Handle("GET /api/settings", <<"api", "settings">>, c, ip, <<>>, fault,
           getSettings(c, fault))

GetUsers(c, ip, fault) ==
    Handle("GET /api/admin/users", <<"api", "admin", "users">>, c, ip, <<>>, fault,
           getUsers(c, fault))

PostUser(c, ip, username, password, role, fault) ==
    Handle("POST /api/admin/users", <<"api", "admin", "users">>, c, ip,
           <<username, password, role>>, fault,
           postUser(c, username, password, role, fault))

PutUser(c, ip, id, updates, fault) ==
    Handle("PUT /api/admin/users/:id", <<"api", "admin", "users", ":id">>, c, ip,
           <<id, updates>>, fault, putUser(c, id, updates, fault))

DeleteUser(c, ip, id, fault) ==
    Handle("DELETE /api/admin/users/:id", <<"api", "admin", "users", ":id">>, c, ip,
           <<id>>, fault, deleteUserRoute(c, id, fault))

PutSettings(c, ip, key, value, fault) ==
    Handle("PUT /api/admin/settings", <<"api", "admin", "settings">>, c, ip,
           <<key, value>>, fault,
           putSettings(c, key, value, fault))

GetBrowse(c, ip, query, fault) ==
    Handle("GET /api/browse", <<"api", "browse">>, c, ip, <<query>>, fault,
           getBrowse(c, query, fault))

GetDownload(c, ip, requestedPath, fault) ==
    Handle("GET /download/*", <<"download", "*">>, c, ip, <<requestedPath>>, fault,
           getDownload(c, requestedPath, fault))

\* latest time the clock is let to reach
MaxNow == 21

\* a minute passes; the cleanup timers expire every SweepInterval minutes
Tick ==
    /\ now < MaxNow
    /\ sweepDue = {}
    /\ now' = now + 1
    /\ sweepDue' = IF (now + 1) % SweepInterval = 0 THEN LimiterNames ELSE {}
    /\ UNCHANGED <<users, settings, sessions, clients, resp, target, everOperational,
                   setups, flights, i18n>>

\* the cleanup timer of limiter l runs
Sweep(l) ==
    /\ l \in sweepDue
    /\ clients' = [clients EXCEPT ![l] = sweep(clients[l])]
    /\ sweepDue' = sweepDue \ {l}
    /\ UNCHANGED <<users, settings, sessions, now, resp, target, everOperational,
                   setups, flights, i18n>>

\* a fresh store (initializeDefaultSettings), no session, no window
Init ==
    /\ users = <<>>
    /\ settings = [k \in {"setup_completed"} |-> [value |-> "false", updated_by |-> 0]]
    /\ sessions = [c \in Cookies |-> NoSession]
    /\ clients = [l \in LimiterNames |-> <<>>]
    /\ now = 0
    /\ sweepDue = {}
    /\ resp = [route |-> "", path |-> <<>>, cookie |-> "k1", ip |-> "ip1",
               args |-> <<>>, fault |-> "none", status |-> 0, body |-> "",
               stages |-> {}, logs |-> {}, fsOps |-> {}]
    /\ target = <<>>
    /\ everOperational = FALSE
    /\ setups = [c \in Cookies |-> NoSetup]
    /\ flights = NoFlights
    /\ i18n = NoI18n

\* most requests counted in one window under Spec
GateCap == 4

\* most downloads counted in one window under Spec
DownloadCap == 2

\* what the clients send under Spec
SetupNames == {"", "alice", "bob"}
UserUpdates == {[role |-> "user"], [is_active |-> 0], [password |-> "pw2"]}
FilePaths == {<<"/">>, <<"c">>, <<".", ".">>}

\* any browser sends any request of the application
Next ==
    \/ \E c \in Cookies, fault \in {"none", "hasAdminUser"} :
         GetSetup(c, "ip1", fault)
    \/ \E c \in Cookies : GetLogin(c, "ip1")
    \/ \E c \in Cookies : GetAdmin(c, "ip1", "none")
    \/ \E c \in Cookies : GetRoot(c, "ip1", "none")
    \/ \E c \in Cookies, username \in SetupNames, fault \in {"none", "setSetting"} :
         Budget(<<"api", "setup">>, "ip1", GateCap)
           /\ PostSetup(c, "ip1", username, "pw1", fault)
    \/ \E c \in Cookies, username \in Usernames, password \in Passwords :
         Budget(<<"api", "auth", "login">>, "ip1", GateCap)
           /\ PostLogin(c, "ip1", username, password, "none")
    \/ \E c \in Cookies :
         Budget(<<"api", "auth", "logout">>, "ip1", GateCap)
           /\ PostLogout(c, "ip1", "none")
    \/ \E c \in Cookies :
         Budget(<<"api", "auth", "status">>, "ip1", GateCap)
           /\ GetAuthStatus(c, "ip1", "none")
    \/ \E c \in Cookies :
         Budget(<<"api", "translations">>, "ip1", GateCap)
           /\ GetTranslations(c, "ip1")
    \/ \E c \in Cookies :
         Budget(<<"api", "settings">>, "ip1", GateCap)
           /\ GetSettings(c, "ip1", "none")
    \/ \E c \in Cookies, fault \in {"none", "requireAdmin"} :
         Budget(<<"api", "admin", "users">>, "ip1", GateCap)
           /\ GetUsers(c, "ip1", fault)
    \/ \E c \in Cookies, role \in {"", "admin"} :
         Budget(<<"api", "admin", "users">>, "ip1", GateCap)
           /\ PostUser(c, "ip1", "bob", "pw1", role, "none")
    \/ \E c \in Cookies, id \in 1..MaxUsers, updates \in UserUpdates :
         Budget(<<"api", "admin", "users", ":id">>, "ip1", GateCap)
           /\ PutUser(c, "ip1", id, updates, "none")
    \/ \E c \in Cookies, id \in 1..MaxUsers :
         Budget(<<"api", "admin", "users", ":id">>, "ip1", GateCap)
           /\ DeleteUser(c, "ip1", id, "none")
    \/ \E c \in Cookies, value \in SettingValues :
         Budget(<<"api", "admin", "settings">>, "ip1", GateCap)
           /\ PutSettings(c, "ip1", "setup_completed", value, "none")
    \/ \E c \in Cookies, query \in FilePaths :
         Budget(<<"api", "browse">>, "ip1", GateCap)
           /\ GetBrowse(c, "ip1", query, "none")
    \/ \E c \in Cookies, requestedPath \in FilePaths :
         Budget(<<"download", "*">>, "ip1", DownloadCap)
           /\ GetDownload(c, "ip1", requestedPath, "none")

Spec == Init /\ [][Next]_vars

\* ---- the file routes on every requested path ---------------------------

\* most requests counted in one window under SpecPath
PathCap == 3

\* setup is completed and its administrator has logged in from browser k1
\* (the state after POST /api/setup and POST /api/auth/login on a fresh
\* store); the client is after any path string
InitPath ==
    /\ users = <<[username |-> "alice", password_hash |-> Hash("pw1"),
                  role |-> "admin", is_active |-> 1]>>
    /\ settings = [k \in {"setup_completed"} |-> [value |-> "true", updated_by |-> 1]]
    /\ sessions = [c \in Cookies |->
                     IF c = "k1" THEN [userId |-> 1, username |-> "alice", role |-> "admin"]
                     ELSE NoSession]
    /\ clients = [l \in LimiterNames |->
                    CASE l = "loginLimiter" ->
                           ("ip1" :> [count |-> 1, resetTime |-> LoginWindow])
                      [] l = "generalLimiter" ->
                           ("ip1" :> [count |-> 2, resetTime |-> GeneralWindow])
                      [] OTHER -> <<>>]
    /\ now = 0
    /\ sweepDue = {}
    /\ resp = [route |-> "POST /api/auth/login", path |-> <<"api", "auth", "login">>,
               cookie |-> "k1", ip |-> "ip1", args |-> <<>>, fault |-> "none",
               status |-> 200, body |-> "loginSuccess",
               stages |-> {"loginLimiter", "generalLimiter", "attachUser", "handler"},
               logs |-> {"AUTH: LOGIN_SUCCESS"}, fsOps |-> {}]
    /\ target \in StringsUpTo(MaxPathLen)
    /\ everOperational = TRUE
    /\ setups = [c \in Cookies |-> NoSetup]
    /\ flights = NoFlights
    /\ i18n = NoI18n

NextPath ==
    \/ Budget(<<"api", "browse">>, "ip1", PathCap)
         /\ GetBrowse("k1", "ip1", target, "none")
    \/ Budget(<<"download", "*">>, "ip1", PathCap)
         /\ GetDownload("k1", "ip1", target, "none")

SpecPath == InitPath /\ [][NextPath]_vars

\* ---- the authentication limiter over time -----------------------------

\* most requests counted in one window under SpecRate
RateCap == 12

\* the server starts on a store in which setup was completed earlier by
\* the administrator alice: no session and no window exist yet
InitRate ==
    /\ users = <<[username |-> "alice", password_hash |-> Hash("pw1"),
                  role |-> "admin", is_active |-> 1]>>
    /\ settings = [k \in {"setup_completed"} |-> [value |-> "true", updated_by |-> 1]]
    /\ sessions = [c \in Cookies |-> NoSession]
    /\ clients = [l \in LimiterNames |-> <<>>]
    /\ now = 0
    /\ sweepDue = {}
    /\ resp = [route |-> "", path |-> <<>>, cookie |-> "k1", ip |-> "ip1",
               args |-> <<>>, fault |-> "none", status |-> 0, body |-> "",
               stages |-> {}, logs |-> {}, fsOps |-> {}]
    /\ target = <<>>
    /\ everOperational = TRUE
    /\ setups = [c \in Cookies |-> NoSetup]
    /\ flights = NoFlights
    /\ i18n = NoI18n

NextRate ==
    \/ \E password \in {"pw1", "pw2"} :
         Budget(<<"api", "auth", "login">>, "ip1", RateCap)
           /\ PostLogin("k1", "ip1", "alice", password, "none")
    \/ Tick
    \/ \E l \in LimiterNames : Sweep(l)

SpecRate == InitRate /\ [][NextRate]_vars

\* ---- the three limiter classes side by side ---------------------------

\* requests counted beyond the limit of the download limiter under
\* SpecClasses
ClassOver == 2

\* most requests counted in one window of the other limiters under
\* SpecClasses
ClassCap == 3

\* latest time the clock reaches under SpecClasses
ClassMaxNow == 2

\* one client downloads a file over and over (past the limit of the
\* download limiter), logs in and reads the settings while time passes
NextClasses ==
    \/ Budget(<<"download", "*">>, "ip1", FileMax + ClassOver)
         /\ GetDownload("k1", "ip1", <<"n", "/", "c">>, "none")
    \/ Budget(<<"api", "settings">>, "ip1", ClassCap)
         /\ GetSettings("k1", "ip1", "none")
    \/ Budget(<<"api", "auth", "login">>, "ip1", ClassCap)
         /\ PostLogin("k1", "ip1", "alice", "pw1", "none")
    \/ now < ClassMaxNow /\ Tick

SpecClasses == InitRate /\ [][NextClasses]_vars

\* ---- POST /api/setup, one database call at a time ----------------------
\* The handler is an async function: it gives way to other requests at
\* every await (isSetupCompleted, hasAdminUser, createUser, setSetting).
\* setups[c].pc names the call the request of browser c waits for.

\* the response of the setup request of browser c
SetupResponse(c, status, body, logs) ==
    [route |-> "POST /api/setup", path |-> <<"api", "setup">>, cookie |-> c,
     ip |-> setups[c].ip, args |-> <<setups[c].username, setups[c].password>>,
     fault |-> "none", status |-> status, body |-> body,
     stages |-> {"generalLimiter", "attachUser", "handler"}, logs |-> logs,
     fsOps |-> {}]

\* the request arrives: the limiter of /api counts it, then the handler
\* starts and waits for its first read
SetupArrives(c, ip, username, password) ==
    /\ setups[c].pc = "idle"
    /\ \E lim \in {RunLimiters(Mounted(<<"api", "setup">>), ip,
                     [clients |-> clients, allowed |-> TRUE, stages |-> {},
                      logs |-> {}])} :
         /\ clients' = lim.clients
         /\ IF lim.allowed
            THEN /\ setups' = [setups EXCEPT ![c] =
                                 [NoSetup EXCEPT !.pc = "isSetupCompleted", !.ip = ip,
                                                 !.username = username,
                                                 !.password = password]]
                 /\ resp' = resp
            ELSE /\ setups' = setups
                 /\ resp' = [route |-> "POST /api/setup", path |-> <<"api", "setup">>,
                             cookie |-> c, ip |-> ip, args |-> <<username, password>>,
                             fault |-> "none", status |-> 429,
                             body |-> "Too many requests", stages |-> lim.stages,
                             logs |-> lim.logs, fsOps |-> {}]
    /\ UNCHANGED <<users, settings, sessions, now, sweepDue, target, everOperational,
                   flights, i18n>>

\* const isSetupCompleted = await database.isSetupCompleted();
SetupReadsFlag(c) ==
    /\ setups[c].pc = "isSetupCompleted"
    /\ setups' = [setups EXCEPT ![c].completed = isSetupCompleted,
                                ![c].pc = "hasAdminUser"]
    /\ UNCHANGED <<users, settings, sessions, clients, now, sweepDue, resp, target,
                   everOperational, flights, i18n>>

\* const hasAdmin = await database.hasAdminUser(); and the checks up to
\* the call of createUser
SetupReadsAdmin(c) ==
    /\ setups[c].pc = "hasAdminUser"
    /\ IF setups[c].completed /\ hasAdminUser
       THEN /\ resp' = SetupResponse(c, 400, "Setup already completed", {})
            /\ setups' = [setups EXCEPT ![c] = NoSetup]
       ELSE IF setups[c].username = "" \/ setups[c].password = ""
       THEN /\ resp' = SetupResponse(c, 400, "Username and password are required", {})
            /\ setups' = [setups EXCEPT ![c] = NoSetup]
       ELSE /\ resp' = resp
            /\ setups' = [setups EXCEPT ![c].pc = "createUser"]
    /\ UNCHANGED <<users, settings, sessions, clients, now, sweepDue, target,
                   everOperational, flights, i18n>>

\* const admin = await database.createUser(username, email, password, 'admin');
SetupCreatesUser(c) ==
    /\ setups[c].pc = "createUser"
    /\ IF UsernameTaken(setups[c].username)
       THEN /\ resp' = SetupResponse(c, 500, "setupError", {"ERROR: Setup error"})
            /\ setups' = [setups EXCEPT ![c] = NoSetup]
            /\ users' = users
       ELSE /\ Len(users) < MaxUsers
            /\ users' = createUser(setups[c].username, setups[c].password, "admin")
            /\ setups' = [setups EXCEPT ![c].adminId = Len(users) + 1,
                                        ![c].pc = "setSetting"]
            /\ resp' = resp
    /\ UNCHANGED <<settings, sessions, clients, now, sweepDue, target, flights, i18n>>
    /\ everOperational' = (everOperational \/ Operational')

\* await database.setSetting('setup_completed', 'true', admin.id); and the
\* response
SetupSetsFlag(c) ==
    /\ setups[c].pc = "setSetting"
    /\ settings' = setSetting("setup_completed", "true", setups[c].adminId)
    /\ resp' = SetupResponse(c, 200, "setupComplete", {"SYSTEM: Initial setup completed"})
    /\ setups' = [setups EXCEPT ![c] = NoSetup]
    /\ UNCHANGED <<users, sessions, clients, now, sweepDue, target, flights, i18n>>
    /\ everOperational' = (everOperational \/ Operational')

\* most setup requests counted in one window under SpecSetup
SetupCap == 3

\* the browsers submit the setup form on a fresh store, at any moment
NextSetup ==
    \/ \E c \in Cookies, username \in Usernames :
         Budget(<<"api", "setup">>, "ip1", SetupCap)
           /\ SetupArrives(c, "ip1", username, "pw1")
    \/ \E c \in Cookies : SetupReadsFlag(c)
    \/ \E c \in Cookies : SetupReadsAdmin(c)
    \/ \E c \in Cookies : SetupCreatesUser(c)
    \/ \E c \in Cookies : SetupSetsFlag(c)

SpecSetup == Init /\ [][NextSetup]_vars

\* ---- the cleanup timers of the limiters -------------------------------

\* most requests counted in one window under SpecSweep
SweepCap == 2

\* two clients send requests now and then while the clock runs and the
\* cleanup timers expire: ip1 logs in from browser k1, ip2 reads the
\* translations and asks for a download from browser k2
NextSweep ==
    \/ Budget(<<"api", "auth", "login">>, "ip1", SweepCap)
         /\ PostLogin("k1", "ip1", "alice", "pw1", "none")
    \/ Budget(<<"api", "translations">>, "ip2", SweepCap)
         /\ GetTranslations("k2", "ip2")
    \/ Budget(<<"download", "*">>, "ip2", SweepCap)
         /\ GetDownload("k2", "ip2", <<"n", "/", "c">>, "none")
    \/ Tick
    \/ \E l \in LimiterNames : Sweep(l)

SpecSweep == InitRate /\ [][NextSweep]_vars

\* ---- sessions that outlive their identity ------------------------------

\* most requests counted in one window under SpecStale
StaleCap == 8

\* the file paths the browsers ask for under SpecStale: the root, the file
\* /n/n/c and the installation directory
StalePaths == {<<"/">>, <<"n", "/", "c">>, <<"c">>}

\* setup is completed, the administrator alice has logged in from browser
\* k1, created the user bob, and bob has logged in from browser k2 (the
\* state after POST /api/setup, POST /api/auth/login, POST /api/admin/users
\* and POST /api/auth/login on a fresh store)
InitStale ==
    /\ users = <<[username |-> "alice", password_hash |-> Hash("pw1"),
                  role |-> "admin", is_active |-> 1],
                 [username |-> "bob", password_hash |-> Hash("pw1"),
                  role |-> "user", is_active |-> 1]>>
    /\ settings = [k \in {"setup_completed"} |-> [value |-> "true", updated_by |-> 1]]
    /\ sessions = [c \in Cookies |->
                     IF c = "k1" THEN [userId |-> 1, username |-> "alice", role |-> "admin"]
                     ELSE [userId |-> 2, username |-> "bob", role |-> "user"]]
    /\ clients = [l \in LimiterNames |->
                    CASE l = "loginLimiter" ->
                           ("ip1" :> [count |-> 2, resetTime |-> LoginWindow])
                      [] l = "generalLimiter" ->
                           ("ip1" :> [count |-> 4, resetTime |-> GeneralWindow])
                      [] OTHER -> <<>>]
    /\ now = 0
    /\ sweepDue = {}
    /\ resp = [route |-> "POST /api/auth/login", path |-> <<"api", "auth", "login">>,
               cookie |-> "k2", ip |-> "ip1", args |-> <<"bob", "pw1">>, fault |-> "none",
               status |-> 200, body |-> "loginSuccess",
               stages |-> {"loginLimiter", "generalLimiter", "attachUser", "handler"},
               logs |-> {"AUTH: LOGIN_SUCCESS"}, fsOps |-> {}]
    /\ target = <<>>
    /\ everOperational = TRUE
    /\ setups = [c \in Cookies |-> NoSetup]
    /\ flights = NoFlights
    /\ i18n = NoI18n

\* the administrator deletes or deactivates identities while both browsers
\* go on browsing and downloading; bob tries to log in again
NextStale ==
    \/ \E id \in 1..MaxUsers :
         Budget(<<"api", "admin", "users", ":id">>, "ip1", StaleCap)
           /\ DeleteUser("k1", "ip1", id, "none")
    \/ \E id \in 1..MaxUsers :
         Budget(<<"api", "admin", "users", ":id">>, "ip1", StaleCap)
           /\ PutUser("k1", "ip1", id, [is_active |-> 0], "none")
    \/ \E c \in Cookies, query \in StalePaths :
         Budget(<<"api", "browse">>, "ip1", StaleCap)
           /\ GetBrowse(c, "ip1", query, "none")
    \/ \E c \in Cookies, requestedPath \in StalePaths :
         Budget(<<"download", "*">>, "ip1", StaleCap)
           /\ GetDownload(c, "ip1", requestedPath, "none")
    \/ Budget(<<"api", "auth", "login">>, "ip1", StaleCap)
         /\ PostLogin("k2", "ip1", "bob", "pw1", "none")

SpecStale == InitStale /\ [][NextStale]_vars

\* ---- logins that fail -------------------------------------------------

\* requests counted beyond the limit of the authentication limiter under
\* SpecLogin
LoginOver == 2

\* the usernames sent under SpecLogin ("" for a missing field)
LoginNames == {"", "alice", "bob"}

\* both browsers hold a session (alice on k1, bob on k2) and go on sending
\* logins, with right and wrong credentials and with the database failing
\* in validatePassword or in updateLastLogin, and logouts
NextLogin ==
    \/ \E c \in Cookies, username \in LoginNames, password \in Passwords,
          fault \in {"none", "validatePassword", "updateLastLogin"} :
         Budget(<<"api", "auth", "login">>, "ip1", LoginMax + LoginOver)
           /\ PostLogin(c, "ip1", username, password, fault)
    \/ \E c \in Cookies :
         Budget(<<"api", "auth", "logout">>, "ip1", LoginMax + LoginOver)
           /\ PostLogout(c, "ip1", "none")

SpecLogin == InitStale /\ [][NextLogin]_vars

\* ---- password changes -------------------------------------------------

\* the bodies of PUT /api/admin/users/:id under SpecPassword: the password
\* alone, and the password next to another column
PasswordUpdates == {[password |-> "pw2"], [is_active |-> 1, password |-> "pw2"]}

\* the administrator changes passwords from browser k1; bob logs in from
\* browser k2 with the old and with the new password
NextPassword ==
    \/ \E id \in 1..MaxUsers, updates \in PasswordUpdates :
         Budget(<<"api", "admin", "users", ":id">>, "ip1", StaleCap)
           /\ PutUser("k1", "ip1", id, updates, "none")
    \/ \E username \in Usernames, password \in Passwords :
         Budget(<<"api", "auth", "login">>, "ip1", StaleCap)
           /\ PostLogin("k2", "ip1", username, password, "none")

SpecPassword == InitStale /\ [][NextPassword]_vars

\* ---- the routes under /api/auth ----------------------------------------

\* requests counted beyond the limit of the authentication limiter under
\* SpecAuth
AuthOver == 2

\* one browser logs in with the right password, asks for its status and
\* logs out, in any order, while the clock runs and the cleanup timers
\* expire
NextAuth ==
    \/ Budget(<<"api", "auth", "login">>, "ip1", LoginMax + AuthOver)
         /\ PostLogin("k1", "ip1", "alice", "pw1", "none")
    \/ Budget(<<"api", "auth", "status">>, "ip1", LoginMax + AuthOver)
         /\ GetAuthStatus("k1", "ip1", "none")
    \/ Budget(<<"api", "auth", "logout">>, "ip1", LoginMax + AuthOver)
         /\ PostLogout("k1", "ip1", "none")
    \/ Tick
    \/ \E l \in LimiterNames : Sweep(l)

SpecAuth == InitRate /\ [][NextAuth]_vars

\* ---- the setup gate on a failing store ---------------------------------

\* most requests counted in one window under SpecGate
CheckCap == 3

\* the database calls of checkSetup that may reject
CheckFaults == {"none", "isSetupCompleted", "hasAdminUser"}

\* from a fresh store: setup, login, and the four routes behind checkSetup,
\* with either read of checkSetup failing now and then
NextGate ==
    \/ \E c \in Cookies :
         Budget(<<"api", "setup">>, "ip1", CheckCap)
           /\ PostSetup(c, "ip1", "alice", "pw1", "none")
    \/ \E c \in Cookies :
         Budget(<<"api", "auth", "login">>, "ip1", CheckCap)
           /\ PostLogin(c, "ip1", "alice", "pw1", "none")
    \/ \E c \in Cookies, fault \in CheckFaults : GetSetup(c, "ip1", fault)
    \/ \E c \in Cookies, fault \in CheckFaults : GetRoot(c, "ip1", fault)
    \/ \E c \in Cookies, fault \in CheckFaults :
         Budget(<<"api", "browse">>, "ip1", CheckCap)
           /\ GetBrowse(c, "ip1", <<"/">>, fault)
    \/ \E c \in Cookies, fault \in CheckFaults :
         Budget(<<"download", "*">>, "ip1", CheckCap)
           /\ GetDownload(c, "ip1", <<"n", "/", "c">>, fault)

SpecGate == Init /\ [][NextGate]_vars

\* ---- the downloads of one client in flight ----------------------------
\* A download is served in several callbacks: the limiter (a synchronous
\* function: it runs to its end before any other callback), then the gates
\* and the handler, which opens the read stream, then the stream until it
\* ends or the client disconnects.  flights counts the requests of client
\* ip1 (browser k1) at each position.

\* most downloads in flight at once under SpecFlight
FlightCap == 2

\* requests counted beyond the limit of the download limiter under
\* SpecFlight
FlightOver == 2

\* latest time the clock reaches under SpecFlight
FlightMaxNow == 2

\* the administrator is logged in from browser k1 and downloads /n/n/c
InitFlight == InitPath /\ target = <<"n", "/", "c">>

InFlight == flights.pending + flights.gated + flights.streaming

\* a download request of the client reaches the server
DownloadArrives ==
    /\ InFlight < FlightCap
    /\ flights' = [flights EXCEPT !.pending = @ + 1, !.last = "arrives"]
    /\ UNCHANGED <<users, settings, sessions, clients, now, sweepDue, resp, target,
                   everOperational, setups, i18n>>

\* the limiter mounted on /download runs for one request that has
\* arrived: it counts the request and passes it on or answers 429
DownloadCounted ==
    /\ flights.pending > 0
    /\ Budget(<<"download", "*">>, "ip1", FileMax + FlightOver)
    /\ \E lim \in {RunLimiters(Mounted(<<"download", "*">>), "ip1",
                     [clients |-> clients, allowed |-> TRUE, stages |-> {}, logs |-> {}])} :
         \E live \in {/\ "ip1" \in DOMAIN clients["fileLimiter"]
                      /\ ~(now > clients["fileLimiter"]["ip1"].resetTime)} :
           /\ clients' = lim.clients
           /\ flights' = [flights EXCEPT
                            !.pending = @ - 1,
                            !.gated = IF lim.allowed THEN @ + 1 ELSE @,
                            !.last = "counted",
                            !.counted = IF live THEN @ + 1 ELSE 1,
                            !.allowed = (IF live THEN @ ELSE 0)
                                        + (IF lim.allowed THEN 1 ELSE 0)]
           /\ resp' = IF lim.allowed THEN resp
                      ELSE [route |-> "GET /download/*", path |-> <<"download", "*">>,
                            cookie |-> "k1", ip |-> "ip1", args |-> <<target>>,
                            fault |-> "none", status |-> 429,
                            body |-> "Too many requests", stages |-> lim.stages,
                            logs |-> lim.logs, fsOps |-> {}]
    /\ UNCHANGED <<users, settings, sessions, now, sweepDue, target, everOperational,
                   setups, i18n>>

\* checkSetup, requireAuth and the handler run for one request the limiter
\* passed on: the handler answers, or opens the read stream and pipes it
DownloadGated ==
    /\ flights.gated > 0
    /\ \E out \in {getDownload("k1", target, "none")} :
         /\ sessions' = [sessions EXCEPT !["k1"] = out.session]
         /\ flights' = [flights EXCEPT
                            !.gated = @ - 1,
                            !.streaming = IF out.status = 200 THEN @ + 1 ELSE @,
                            !.last = "gated"]
         /\ resp' = [route |-> "GET /download/*", path |-> <<"download", "*">>,
                     cookie |-> "k1", ip |-> "ip1", args |-> <<target>>,
                     fault |-> "none", status |-> out.status, body |-> out.body,
                     stages |-> {"fileLimiter"} \cup out.stages,
                     logs |-> out.logs, fsOps |-> out.fsOps]
    /\ UNCHANGED <<users, settings, clients, now, sweepDue, target, everOperational,
                   setups, i18n>>

\* the read stream of one download reaches the end of the file
StreamEnds ==
    /\ flights.streaming > 0
    /\ flights' = [flights EXCEPT !.streaming = @ - 1, !.last = "ends"]
    /\ UNCHANGED <<users, settings, sessions, clients, now, sweepDue, resp, target,
                   everOperational, setups, i18n>>

Disconnect_Refund ==
    /\ flights.streaming > 0
    /\ flights' = [flights EXCEPT !.streaming = @ - 1, !.last = "disconnect"]
    /\ clients' = [clients EXCEPT !["fileLimiter"]["ip1"].count = @ - 1]
    /\ UNCHANGED <<users, settings, sessions, now, sweepDue, resp, target,
                   everOperational, setups, i18n>>

\* the client closes the connection while the stream is piped to it: the
\* pipe ends, nothing else is written
Disconnect ==
    /\ flights.streaming > 0
    /\ flights' = [flights EXCEPT !.streaming = @ - 1, !.last = "disconnect"]
    /\ UNCHANGED <<users, settings, sessions, clients, now, sweepDue, resp, target,
                   everOperational, setups, i18n>>

NextFlight ==
    \/ DownloadArrives
    \/ DownloadCounted
    \/ DownloadGated
    \/ StreamEnds
    \/ Disconnect
    \/ now < FlightMaxNow /\ Tick

SpecFlight == InitFlight /\ [][NextFlight]_vars

\* ---- the language of a response ----------------------------------------
\* The application has one I18n object.  Its middleware runs for every
\* request, selects the request's language and stores it in the object
\* (setLanguage); req.t(key) translates to the object's language at the
\* time it is called.  A login waits for validatePassword between the
\* middleware and its answer; other requests are handled meanwhile.

\* most requests counted in one window under SpecLang
LangCap == 3

\* what a request may carry as ?lang= (none, Spanish, or a language
\* without translations)
LangQueries == {"", "es", "fr"}

\* what a request may carry as the first tag of Accept-Language (none,
\* Spanish, English, French)
LangHeaders == {"", "es", "en", "fr"}

\* setLanguage(language): the object's language after the call
setLanguage(language) ==
    IF language \in Languages THEN language ELSE i18n.currentLanguage

\* translate(key): the message of `key` in the object's current language
translate(key) == <<i18n.currentLanguage, key>>

\* the language the middleware selects: req.query.lang || session.language
\* || the first tag of Accept-Language, and the default when that is
\* missing or has no translations
middlewareLanguage(query, sessionLanguage, header) ==
    LET language == IF query # "" THEN query
                    ELSE IF sessionLanguage # "" THEN sessionLanguage
                    ELSE header
    IN  IF language = "" \/ language \notin Languages THEN defaultLanguage
        ELSE language

\* a login with a wrong password arrives from browser c: the limiters count
\* it, the i18n middleware selects its language and stores it in the
\* object, attachUser finds no user in the session and the handler starts
\* and waits for validatePassword
LoginArrives(c, query, header) ==
    /\ i18n.reqs[c].pc = "idle"
    /\ sessions[c] = NoSession
    /\ \E lim \in {RunLimiters(Mounted(<<"api", "auth", "login">>), "ip1",
                     [clients |-> clients, allowed |-> TRUE, stages |-> {},
                      logs |-> {}])} :
         \E language \in {middlewareLanguage(query, i18n.session[c], header)} :
           /\ lim.allowed
           /\ clients' = lim.clients
           /\ i18n' = [i18n EXCEPT
                          !.currentLanguage = setLanguage(language),
                          !.reqs[c] = [pc |-> "validatePassword", language |-> language]]
    /\ UNCHANGED <<users, settings, sessions, now, sweepDue, resp, target,
                   everOperational, setups, flights>>

\* validatePassword has resolved for the login of browser c: the handler
\* answers 401 with req.t('invalidCredentials')
LoginAnswers(c) ==
    /\ i18n.reqs[c].pc = "validatePassword"
    /\ \E out \in {postLogin(c, "alice", "pw2", "none")} :
         /\ sessions' = [sessions EXCEPT ![c] = out.session]
         /\ resp' = [route |-> "POST /api/auth/login",
                     path |-> <<"api", "auth", "login">>, cookie |-> c, ip |-> "ip1",
                     args |-> <<"alice", "pw2">>, fault |-> "none",
                     status |-> out.status, body |-> out.body,
                     stages |-> {"loginLimiter", "generalLimiter"} \cup out.stages,
                     logs |-> out.logs, fsOps |-> {}]
    /\ i18n' = [i18n EXCEPT
                   !.reqs[c] = NoRequest,
                   !.answer = [cookie |-> c, selected |-> i18n.reqs[c].language,
                               used |-> translate("invalidCredentials")[1]]]
    /\ UNCHANGED <<users, settings, clients, now, sweepDue, target, everOperational,
                   setups, flights>>

\* PUT /api/language with the body {language} from browser c, which has no
\* login in flight: the whole request runs without waiting.  The middleware
\* stores the language it selects in the object, then the handler stores
\* the language of the body in the object and in the session, or answers
\* 400 'Invalid language'
PutLanguage(c, language) ==
    /\ i18n.reqs[c].pc = "idle"
    /\ \E lim \in {RunLimiters(Mounted(<<"api", "language">>), "ip1",
                     [clients |-> clients, allowed |-> TRUE, stages |-> {},
                      logs |-> {}])} :
         \E selected \in {middlewareLanguage("", i18n.session[c], "")} :
           /\ lim.allowed
           /\ clients' = lim.clients
           /\ i18n' = IF language \in Languages
                      THEN [i18n EXCEPT !.currentLanguage = language,
                                        !.session[c] = language]
                      ELSE [i18n EXCEPT !.currentLanguage = setLanguage(selected)]
           /\ resp' = [route |-> "PUT /api/language", path |-> <<"api", "language">>,
                       cookie |-> c, ip |-> "ip1", args |-> <<language>>,
                       fault |-> "none",
                       status |-> IF language \in Languages THEN 200 ELSE 400,
                       body |-> IF language \in Languages THEN "languageChanged"
                                ELSE "Invalid language",
                       stages |-> lim.stages \cup {"attachUser", "handler"},
                       logs |-> {}, fsOps |-> {}]
    /\ UNCHANGED <<users, settings, sessions, now, sweepDue, target, everOperational,
                   setups, flights>>

\* two browsers send logins with wrong passwords and change their language
NextLang ==
    \/ \E c \in Cookies, query \in LangQueries, header \in LangHeaders :
         Budget(<<"api", "auth", "login">>, "ip1", LangCap)
           /\ LoginArrives(c, query, header)
    \/ \E c \in Cookies : LoginAnswers(c)
    \/ \E c \in Cookies, language \in Languages \cup {"fr"} :
         Budget(<<"api", "language">>, "ip1", LangCap)
           /\ PutLanguage(c, language)

SpecLang == InitRate /\ [][NextLang]_vars

\* ------------------------------------------------------------------------
\* Properties: path containment (checked under SpecPath)
\* ------------------------------------------------------------------------

FileRoutes == {"GET /api/browse", "GET /download/*"}

\* the path string the handler of the last request took from the request
RequestedPath ==
    IF resp.route = "GET /api/browse" /\ resp.args[1] = <<>> THEN <<"/">> ELSE resp.args[1]

\* the requested path resolved against the root: leading separators
\* stripped, '.' and '..' segments resolved
Resolved == PathResolve(NAS_ROOT, StripLeadingSlashes(RequestedPath))

\* directory containment, segment by segment: p is dir or a descendant of it
Within(p, dir) ==
    LET ps == NormSegs(Split(p), <<>>)
        ds == NormSegs(Split(dir), <<>>)
    IN  Len(ds) <= Len(ps) /\ SubSeq(ps, 1, Len(ds)) = ds

\* the last request is a file request that got as far as the path check
PathChecked == resp.route \in FileRoutes /\ "isValidPath" \in resp.stages

\* C1: a requested path that resolves to neither the root nor a descendant
\* of it is rejected by isValidPath, and /api/browse and /download answer it
\* 403 access-denied without any filesystem call.
C1_EscapingPathDenied ==
    (PathChecked /\ ~Within(Resolved, NAS_ROOT))
        => /\ ~isValidPath(RequestedPath)
           /\ resp.status = 403
           /\ resp.body = "fileAccessDenied"
           /\ resp.fsOps = {}

\* C2: every filesystem call of /api/browse and /download/* is made on the
\* absolute path that isValidPath resolved and accepted for the request (a
\* listing also stats the entries of that directory), with and without
\* leading separators in the requested path.
C2_HandlerUsesValidatedPath ==
    resp.route \in FileRoutes
        => \A op \in resp.fsOps :
              /\ isValidPath(RequestedPath)
              /\ \/ op[2] = Resolved
                 \/ /\ op[1] = "statSync"
                    /\ \E item \in readdirSync(Resolved) : op[2] = PathJoin(Resolved, item)

\* C3: a requested path that resolves to the excluded installation
\* directory or to a descendant of it is always rejected by isValidPath
\* (the request is answered access-denied), also though that directory
\* lies under the root.
C3_ExcludedAlwaysRejected ==
    (PathChecked /\ Within(Resolved, corsPath))
        => /\ ~isValidPath(RequestedPath)
           /\ resp.body = "fileAccessDenied"

\* a path into the installation directory, below the root, was rejected
C3_Witness ==
    /\ PathChecked
    /\ Within(Resolved, corsPath)
    /\ Resolved # corsPath
    /\ Within(Resolved, NAS_ROOT)
    /\ resp.status = 403

\* ------------------------------------------------------------------------
\* Properties: the rate limiter (checked under SpecRate)
\* ------------------------------------------------------------------------

\* this step is a request counted by the authentication limiter
CountedByLoginLimiter ==
    /\ clients'["loginLimiter"] # clients["loginLimiter"]
    /\ sweepDue' = sweepDue

\* the client of the request has a window that has not passed its reset time
InLiveWindow(map, ip) == ip \in DOMAIN map /\ ~(now > map[ip].resetTime)

\* C6: for a limiter with limit N and one client, a request inside the
\* client's window is counted in it and is allowed exactly when it is among
\* the first N of the window (every further one gets 429); the first request
\* after the reset time has passed (or with no window) starts a new window
\* with count 1 that ends a window's length later, and is allowed.
C6_FixedWindow ==
    [][CountedByLoginLimiter =>
         LET ip == resp'.ip
             map == clients["loginLimiter"]
             window == clients'["loginLimiter"][ip]
             rejected == resp'.status = 429 /\ "generalLimiter" \notin resp'.stages
         IN  /\ \A other \in DOMAIN map \ {ip} :
                   /\ other \in DOMAIN clients'["loginLimiter"]
                   /\ clients'["loginLimiter"][other] = map[other]
             /\ IF InLiveWindow(map, ip)
                THEN /\ window.count = map[ip].count + 1
                     /\ window.resetTime = map[ip].resetTime
                     /\ rejected <=> window.count > LoginMax
                ELSE /\ window.count = 1
                     /\ window.resetTime = now + LoginWindow
                     /\ ~rejected]_vars

\* request N+1 of a window was rejected
C6_Witness ==
    /\ resp.status = 429
    /\ resp.ip \in DOMAIN clients["loginLimiter"]
    /\ clients["loginLimiter"][resp.ip].count = LoginMax + 1
    /\ ~(now > clients["loginLimiter"][resp.ip].resetTime)
    /\ now > 0

\* C7: the 11th login request of one client within one window of the
\* authentication limiter (limit 10) is answered 429 whatever its
\* credentials: the login handler does not run, no password is validated
\* and the session is not changed.
C7_EleventhLoginRejected ==
    [][(/\ CountedByLoginLimiter
        /\ resp'.route = "POST /api/auth/login"
        /\ InLiveWindow(clients["loginLimiter"], resp'.ip)
        /\ clients["loginLimiter"][resp'.ip].count = LoginMax)
       => /\ resp'.status = 429
          /\ "handler" \notin resp'.stages
          /\ resp'.logs \cap {"AUTH: LOGIN_FAILED", "AUTH: LOGIN_SUCCESS"} = {}
          /\ sessions' = sessions]_vars

\* an 11th login with the correct password was rejected, and the browser
\* that sent it has no session
C7_Witness ==
    /\ resp.route = "POST /api/auth/login"
    /\ resp.status = 429
    /\ resp.args = <<"alice", "pw1">>
    /\ validatePassword("alice", "pw1") # 0
    /\ sessions[resp.cookie] = NoSession
    /\ clients["loginLimiter"][resp.ip].count = LoginMax + 1

\* ------------------------------------------------------------------------
\* Properties: the authentication and administrator gates (checked under
\* Spec).  Each step of Spec is one request; resp' is its outcome and the
\* unprimed variables are what its middleware read.
\* ------------------------------------------------------------------------

\* the stage behind the gates of the route ran
NextStageRan == "handler" \in resp'.stages

\* C4: requireAuth lets a request proceed to the next stage if and only if
\* its session carries a non-empty user identifier; otherwise it ends the
\* request as unauthenticated (401 for /api/ paths, a redirect to /login
\* for pages), the next stage does not run and nothing is changed.
C4_RequireAuth ==
    [][("requireAuth" \in resp'.stages) =>
         IF sessions[resp'.cookie].userId # 0
         THEN NextStageRan
         ELSE /\ ~NextStageRan
              /\ "isValidPath" \notin resp'.stages
              /\ IF IsApiPath(resp'.path)
                 THEN resp'.status = 401 /\ resp'.body = "Authentication required"
                 ELSE resp'.status = 302 /\ resp'.body = "redirect:/login"
              /\ resp'.fsOps = {}
              /\ UNCHANGED <<users, settings, sessions>>]_vars

\* a browser without a session was refused the listing while another
\* browser was logged in
C4_Witness ==
    /\ resp.route = "GET /api/browse"
    /\ "requireAuth" \in resp.stages
    /\ resp.status = 401
    /\ sessions[resp.cookie].userId = 0
    /\ \E c \in Cookies : sessions[c].userId # 0

\* the row of the users table with this id is an active administrator
ActiveAdminRow(id) ==
    /\ id \in 1..Len(users)
    /\ users[id].is_active = 1
    /\ users[id].role = "admin"

AdminApiRoutes ==
    {"GET /api/admin/users", "POST /api/admin/users", "PUT /api/admin/users/:id",
     "DELETE /api/admin/users/:id", "PUT /api/admin/settings"}

\* C5: requireAdmin answers 401 when the session has no user identifier;
\* otherwise, when the lookup by id succeeds, it answers 403 if the identity
\* is missing, inactive or not an administrator, and lets the next stage run
\* only for an active administrator.  No rejected request changes the store.
C5_RequireAdmin ==
    [][("requireAdmin" \in resp'.stages /\ resp'.fault # "requireAdmin") =>
         LET id == sessions[resp'.cookie].userId
         IN  IF id = 0
             THEN /\ resp'.status = 401 /\ resp'.body = "Authentication required"
                  /\ ~NextStageRan
                  /\ UNCHANGED <<users, settings, sessions>>
             ELSE IF ~ActiveAdminRow(id)
             THEN /\ resp'.status = 403 /\ resp'.body = "Admin privileges required"
                  /\ ~NextStageRan
                  /\ UNCHANGED <<users, settings, sessions>>
             ELSE NextStageRan]_vars

\* a logged-in identity that is active but no administrator asked for an
\* /api/admin/ operation and got 403
C5_Witness ==
    /\ resp.route \in AdminApiRoutes
    /\ resp.status = 403
    /\ sessions[resp.cookie].userId \in 1..Len(users)
    /\ users[sessions[resp.cookie].userId].is_active = 1
    /\ users[sessions[resp.cookie].userId].role = "user"

\* ------------------------------------------------------------------------
\* Properties: the setup gate (checked under Spec)
\* ------------------------------------------------------------------------

\* the two conditions of the gate as the store holds them
FlagIsTrue == settings["setup_completed"].value = "true"
ActiveAdminExists == \E id \in 1..Len(users) : ActiveAdminRow(id)

\* the answers that send a client to the setup flow
SetupRequiredAnswers == {"redirect:/setup", "Initial setup required"}

\* the answers that keep a client out of the setup flow
SetupBlockedAnswers == {"redirect:/", "Setup already completed"}

\* this step is a request that reached its route and whose database reads
\* succeeded
Served == resp' # resp /\ resp'.status # 429 /\ resp'.fault = "none"

\* C8: checkSetup treats a request as SETUP_REQUIRED exactly when the flag
\* it reads is not 'true' or no active administrator exists, and as
\* OPERATIONAL otherwise: when required it passes only the setup page on
\* and answers every other gated path with the setup-required response;
\* when operational it redirects the setup page to / and passes the other
\* gated paths on to requireAuth.  The decision is taken anew per request:
\* the gated request that follows a successful setup is treated as
\* OPERATIONAL.
C8_CheckSetupDecision ==
    [][("checkSetup" \in resp'.stages /\ Served) =>
         /\ IF ~FlagIsTrue \/ ~ActiveAdminExists
            THEN IF resp'.path = <<"setup">>
                 THEN resp'.body = "setup.html"
                 ELSE /\ resp'.body \in SetupRequiredAnswers
                      /\ "requireAuth" \notin resp'.stages
                      /\ ~NextStageRan
            ELSE IF resp'.path = <<"setup">>
                 THEN resp'.body = "redirect:/" /\ ~NextStageRan
                 ELSE "requireAuth" \in resp'.stages
         /\ resp.body = "setupComplete" =>
               resp'.body \notin SetupRequiredAnswers \cup {"setup.html"}]_vars

\* the request after the setup submission (the only /api request so far)
\* went through the gate and on to requireAuth
C8_Witness ==
    /\ FlagIsTrue /\ ActiveAdminExists
    /\ "ip1" \in DOMAIN clients["generalLimiter"]
    /\ clients["generalLimiter"]["ip1"].count = 1
    /\ {"checkSetup", "requireAuth"} \subseteq resp.stages

\* C9: while the system is SETUP_REQUIRED, every request whose path is not
\* on the allow-list is redirected to /setup or answered with the
\* setup-required response, and the handler of its route does not run.
C9_SetupRequiredBlocksOthers ==
    [][(/\ ~FlagIsTrue \/ ~ActiveAdminExists
        /\ Served
        /\ ~SetupAllowList(resp'.path))
       => /\ resp'.body \in SetupRequiredAnswers
          /\ ~NextStageRan]_vars

SetupFlowRoutes == {"GET /setup", "POST /api/setup"}

C12_AtMostOneSetupCreates ==
    Cardinality({id \in 1..Len(users) : users[id].role = "admin"}) <= 1

\* ------------------------------------------------------------------------
\* Properties: the order of the stages (checked under Spec)
\* ------------------------------------------------------------------------

\* the routes checkSetup stands in front of
SetupGatedRoutes == {"GET /setup", "GET /", "GET /api/browse", "GET /download/*"}

LimitersInFrontOf(route) ==
    CASE route = "GET /api/browse" -> {"generalLimiter"}
      [] route = "GET /download/*" -> {"fileLimiter"}
      [] OTHER -> {}

C14_AuthBeforePathGuard ==
    [][(/\ FlagIsTrue /\ ActiveAdminExists
        /\ resp'.route \in {"GET /api/browse", "GET /download/*"}
        /\ resp'.status # 429
        /\ sessions[resp'.cookie].userId = 0
        /\ ~Within(PathResolve(NAS_ROOT, StripLeadingSlashes(resp'.args[1])), NAS_ROOT)
             \/ Within(PathResolve(NAS_ROOT, StripLeadingSlashes(resp'.args[1])), corsPath))
       => /\ resp'.body \in {"Authentication required", "redirect:/login"}
          /\ resp'.status \in {401, 302}
          /\ "isValidPath" \notin resp'.stages
          /\ ~NextStageRan
          /\ resp'.fsOps = {}]_vars

\* an anonymous request for a path above the root was refused as
\* unauthenticated
C14_Witness ==
    /\ FlagIsTrue /\ ActiveAdminExists
    /\ resp.route = "GET /api/browse"
    /\ resp.args = <<(<<".", ".">>)>>
    /\ sessions[resp.cookie].userId = 0
    /\ resp.status = 401
    /\ "isValidPath" \notin resp.stages

\* the answers with which each gate ends a request
SetupGateAnswers == SetupRequiredAnswers \cup {"redirect:/"}
AuthGateAnswers == {"Authentication required", "redirect:/login"}
AdminGateAnswers ==
    {"Authentication required", "Admin privileges required", "Internal server error"}

C16_AdminsNotDeleted ==
    [][(/\ resp'.route = "DELETE /api/admin/users/:id"
        /\ NextStageRan
        /\ \/ resp'.args[1] = sessions[resp'.cookie].userId
           \/ /\ resp'.args[1] \in 1..Len(users)
              /\ users[resp'.args[1]].role = "admin")
       => /\ IF resp'.args[1] = sessions[resp'.cookie].userId
             THEN resp'.status = 400 /\ resp'.body = "Cannot delete your own account"
             ELSE resp'.status = 404 /\ resp'.body = "User not found"
          /\ "ADMIN: USER_DELETED" \notin resp'.logs
          /\ users' = users]_vars

\* an administrator asked to delete another, active administrator and was
\* refused
C16_Witness ==
    /\ resp.route = "DELETE /api/admin/users/:id"
    /\ resp.status = 404
    /\ resp.args[1] \in 1..Len(users)
    /\ resp.args[1] # sessions[resp.cookie].userId
    /\ ActiveAdminRow(resp.args[1])
    /\ ActiveAdminRow(sessions[resp.cookie].userId)

\* C17: when the lookup of the identity in requireAdmin fails with a
\* storage error, the request ends with 500: it is not answered 403 and
\* the handler does not run, whatever the stored identity is.
C17_LookupFailureIs500 ==
    [][(/\ "requireAdmin" \in resp'.stages
        /\ resp'.fault = "requireAdmin"
        /\ sessions[resp'.cookie].userId # 0)
       => /\ resp'.status = 500
          /\ resp'.body = "Internal server error"
          /\ resp'.logs = {"ERROR: Admin middleware error"}
          /\ ~NextStageRan
          /\ UNCHANGED <<users, settings, sessions>>]_vars

\* the lookup failed for a session whose identity is no active
\* administrator: the answer was 500, not 403
C17_Witness ==
    /\ resp.fault = "requireAdmin"
    /\ resp.status = 500
    /\ sessions[resp.cookie].userId # 0
    /\ ~ActiveAdminRow(sessions[resp.cookie].userId)

\* C18: an unauthenticated request to a protected page route (/, /admin,
\* /download/*) is redirected to /login; here for the OPERATIONAL state,
\* where the setup gate lets / and /download/* through.
C18_PagesRedirectToLogin ==
    [][(/\ FlagIsTrue /\ ActiveAdminExists
        /\ resp'.route \in {"GET /", "GET /admin", "GET /download/*"}
        /\ resp'.status # 429
        /\ sessions[resp'.cookie].userId = 0)
       => /\ resp'.status = 302
          /\ resp'.body = "redirect:/login"]_vars

\* ------------------------------------------------------------------------
\* Properties: first run and sessions (checked under Spec)
\* ------------------------------------------------------------------------

\* the store as initializeDefaultSettings leaves it: no user, flag 'false'
FreshStore == users = <<>> /\ ~FlagIsTrue

\* C19: on a fresh store GET / is redirected to /setup; a POST /api/setup
\* with a username and a password then answers 200, creates one identity,
\* active and with role admin, and sets the flag to 'true' with that
\* identity as updated_by; from then on, while the flag and the
\* administrator are as the setup left them, every GET /setup is
\* redirected to /.
C19_FirstRun ==
    [][(resp'.fault = "none" /\ resp'.status # 429) =>
         /\ (FreshStore /\ resp'.route = "GET /") =>
               /\ resp'.status = 302 /\ resp'.body = "redirect:/setup"
               /\ UNCHANGED <<users, settings, sessions>>
         /\ (/\ FreshStore /\ resp'.route = "POST /api/setup"
             /\ resp'.args[1] # "" /\ resp'.args[2] # "") =>
               /\ resp'.status = 200 /\ resp'.body = "setupComplete"
               /\ users' = <<[username |-> resp'.args[1],
                              password_hash |-> Hash(resp'.args[2]),
                              role |-> "admin", is_active |-> 1]>>
               /\ settings'["setup_completed"] = [value |-> "true", updated_by |-> 1]
         /\ (FlagIsTrue /\ ActiveAdminExists /\ resp'.route = "GET /setup") =>
               /\ resp'.status = 302 /\ resp'.body = "redirect:/"
               /\ UNCHANGED <<users, settings, sessions>>]_vars

\* the setup page was asked for after the one setup submission, and the
\* browser was sent to /
C19_Witness ==
    /\ resp.route = "GET /setup"
    /\ resp.body = "redirect:/"
    /\ Len(users) = 1 /\ ActiveAdminRow(1)
    /\ settings["setup_completed"] = [value |-> "true", updated_by |-> 1]
    /\ "ip1" \in DOMAIN clients["generalLimiter"]
    /\ clients["generalLimiter"]["ip1"].count = 1

\* C20: a session comes to carry a user identifier only through a login
\* whose username and password match an active identity, and then carries
\* the id, username and role of that identity; a successful logout leaves
\* the session without user, and a session without user is refused by
\* requireAuth and requireAdmin until such a login.
C20_SessionLifecycle ==
    [][/\ \A c \in Cookies :
            (sessions'[c] # sessions[c] /\ sessions'[c].userId # 0) =>
               LET id == sessions'[c].userId
               IN  /\ resp'.route = "POST /api/auth/login" /\ resp'.cookie = c
                   /\ id \in 1..Len(users)
                   /\ users[id].is_active = 1
                   /\ users[id].username = resp'.args[1]
                   /\ users[id].password_hash = Hash(resp'.args[2])
                   /\ sessions'[c] = [userId |-> id, username |-> users[id].username,
                                      role |-> users[id].role]
       /\ \A c \in Cookies :
            (sessions'[c] # sessions[c] /\ sessions'[c].userId = 0) =>
               /\ resp'.route = "POST /api/auth/logout" /\ resp'.cookie = c
               /\ resp'.status = 200
               /\ sessions'[c] = NoSession
       /\ (resp'.route = "POST /api/auth/logout" /\ resp'.status = 200) =>
               sessions'[resp'.cookie] = NoSession
       /\ (/\ sessions[resp'.cookie] = NoSession
           /\ resp'.stages \cap {"requireAuth", "requireAdmin"} # {}) =>
               /\ resp'.body \in AuthGateAnswers
               /\ ~NextStageRan]_vars

\* a browser that had logged out was refused as unauthenticated
C20_Witness ==
    /\ sessions[resp.cookie] = NoSession
    /\ resp.route = "GET /api/browse"
    /\ resp.status = 401
    /\ FlagIsTrue /\ ActiveAdminExists
    /\ \A c \in Cookies : sessions[c] = NoSession
    /\ "ip1" \in DOMAIN clients["loginLimiter"]
    /\ clients["loginLimiter"]["ip1"].count = 2
    /\ clients["generalLimiter"]["ip1"].count = 4
\* ------------------------------------------------------------------------
\* Properties: the limiter classes (checked under SpecClasses)
\* ------------------------------------------------------------------------

\* this step is a request counted by limiter l
CountedBy(l) ==
    /\ clients'[l] # clients[l]
    /\ sweepDue' = sweepDue

\* C21: the limiter classes keep independent state: a request counted by
\* the download limiter changes no window (count or reset time) of the
\* general-API or authentication limiter, and a request that reaches the
\* general-API limiter while its client's budget there is not exhausted is
\* not rejected by it, whatever the client's window in the download limiter.
C21_IndependentClasses ==
    [][/\ CountedBy("fileLimiter")
            => /\ clients'["generalLimiter"] = clients["generalLimiter"]
               /\ clients'["loginLimiter"] = clients["loginLimiter"]
       /\ (/\ CountedBy("generalLimiter")
           /\ InLiveWindow(clients["generalLimiter"], resp'.ip)
                => clients["generalLimiter"][resp'.ip].count < GeneralMax)
            => ~(resp'.status = 429 /\ "generalLimiter" \in resp'.stages)]_vars

\* the client's window in the download limiter is past its limit (its last
\* download was rejected) and its request to the general API, sent after
\* that, was served
C21_Witness ==
    /\ "ip1" \in DOMAIN clients["fileLimiter"]
    /\ clients["fileLimiter"]["ip1"].count > FileMax
    /\ ~(now > clients["fileLimiter"]["ip1"].resetTime)
    /\ resp.route = "GET /api/settings"
    /\ resp.status = 200
    /\ "generalLimiter" \in resp.stages

\* ------------------------------------------------------------------------
\* Properties: accepted paths (checked under SpecPath)
\* ------------------------------------------------------------------------

\* C22: every requested path that resolves to the root or to a descendant
\* of it, and to neither the installation directory nor a descendant of it,
\* is accepted by isValidPath (the request is not answered access-denied);
\* in particular a sibling of the installation directory is accepted.
C22_InsidePathAccepted ==
    (/\ PathChecked
     /\ Within(Resolved, NAS_ROOT)
     /\ ~Within(Resolved, corsPath))
        => /\ isValidPath(RequestedPath)
           /\ resp.body # "fileAccessDenied"

\* the path string of the last request names no entry: it is empty (or the
\* parameter is missing) or it is "/"
RootRequested == resp.args[1] \in {<<>>, <<"/">>}

\* C23: an empty requested path, a missing path parameter and the path "/"
\* resolve in isValidPath to the root directory itself and are accepted by
\* it: the request is not answered access-denied, and /api/browse lists the
\* root.
C23_RootAccepted ==
    (PathChecked /\ RootRequested)
        => /\ Resolved = NAS_ROOT
           /\ isValidPath(RequestedPath)
           /\ resp.body # "fileAccessDenied"
           /\ resp.route = "GET /api/browse"
                => /\ resp.status = 200
                   /\ resp.body = "listing"
                   /\ resp.fsOps = ListingOps(NAS_ROOT)

\* /api/browse without a path parameter listed the root
C23_Witness ==
    /\ PathChecked
    /\ resp.route = "GET /api/browse"
    /\ resp.args[1] = <<>>
    /\ resp.status = 200
    /\ <<"readdirSync", NAS_ROOT>> \in resp.fsOps

\* ------------------------------------------------------------------------
\* Properties: the download of a directory (checked under SpecPath)
\* ------------------------------------------------------------------------

\* the path the download handler resolves for the last request
DownloadPath == PathResolve(NAS_ROOT, resp.args[1])

Min(a, b) == IF a < b THEN a ELSE b

\* C25: the check-and-increment of one (class, client) window is one atomic
\* step: however the steps of the client's in-flight downloads interleave,
\* the window's count is the number K of requests the limiter ran for since
\* the window began (each counted exactly once), exactly min(K, N) of them
\* were passed on, the count does not decrease while the window lasts, and
\* a disconnect in the middle of a download changes no window and no
\* session.
C25_AtomicWindowUpdate ==
    /\ []("ip1" \in DOMAIN clients["fileLimiter"]
            => /\ clients["fileLimiter"]["ip1"].count = flights.counted
               /\ flights.allowed = Min(flights.counted, FileMax))
    /\ [][/\ (/\ InLiveWindow(clients["fileLimiter"], "ip1")
              /\ "ip1" \in DOMAIN clients'["fileLimiter"]
              /\ clients'["fileLimiter"]["ip1"].resetTime
                   = clients["fileLimiter"]["ip1"].resetTime)
               => clients'["fileLimiter"]["ip1"].count
                    >= clients["fileLimiter"]["ip1"].count
          /\ (flights' # flights /\ flights'.last = "disconnect")
               => clients' = clients /\ sessions' = sessions]_vars

\* inside one window the limiter has counted one request more than its
\* limit and passed on as many as the limit; another request of the client
\* is in flight and the client has just disconnected from a download
C25_Witness ==
    /\ InLiveWindow(clients["fileLimiter"], "ip1")
    /\ clients["fileLimiter"]["ip1"].count = FileMax + 1
    /\ flights.allowed = FileMax
    /\ flights.last = "disconnect"
    /\ InFlight > 0

\* ------------------------------------------------------------------------
\* Properties: the cleanup timers (checked under SpecSweep)
\* ------------------------------------------------------------------------

\* this step is a run of the cleanup timer of limiter l
SweepRuns(l) == l \in sweepDue /\ sweepDue' = sweepDue \ {l}

\* the window's reset time has passed
Expired(window) == now > window.resetTime

\* C26: a run of a limiter's cleanup timer removes exactly the entries of
\* that limiter whose reset time has passed and leaves every other entry
\* (its count and reset time, and the other limiters' Maps) unchanged; an
\* expired entry that gets no further request is gone after the first run
\* of the timer that follows its expiry; and the timers of all limiters
\* expire every SweepInterval minutes, whatever the limiter's window.
C26_SweepRemovesExpired ==
    /\ [][/\ \A l \in LimiterNames :
               SweepRuns(l) =>
                 /\ DOMAIN clients'[l]
                      = {ip \in DOMAIN clients[l] : ~Expired(clients[l][ip])}
                 /\ \A ip \in DOMAIN clients'[l] : clients'[l][ip] = clients[l][ip]
                 /\ \A m \in LimiterNames \ {l} : clients'[m] = clients[m]
          /\ now' # now =>
               sweepDue' = IF now' % SweepInterval = 0 THEN LimiterNames ELSE {}]_vars
    /\ [](\A l \in LimiterNames : \A ip \in DOMAIN clients[l] :
             Expired(clients[l][ip]) =>
               LET seen == IF l \in sweepDue THEN now - 1 ELSE now
               IN  \/ seen <= clients[l][ip].resetTime
                   \/ seen \div SweepInterval
                        = clients[l][ip].resetTime \div SweepInterval)

\* at minute 20 the timer of the general limiter has run and that of the
\* authentication limiter has not yet: the window of ip1, which logged in
\* before minute 5, is gone from the general limiter (and still in the
\* authentication limiter), and the window of ip2, which ends later, was
\* kept with its count
C26_Witness ==
    /\ now = 20
    /\ "generalLimiter" \notin sweepDue
    /\ "loginLimiter" \in sweepDue
    /\ sessions["k1"] # NoSession
    /\ "ip1" \in DOMAIN clients["loginLimiter"]
    /\ Expired(clients["loginLimiter"]["ip1"])
    /\ "ip1" \notin DOMAIN clients["generalLimiter"]
    /\ "ip2" \in DOMAIN clients["generalLimiter"]
    /\ clients["generalLimiter"]["ip2"].resetTime = now
    /\ clients["generalLimiter"]["ip2"].count = 2

\* ------------------------------------------------------------------------
\* Properties: identity records (checked under Spec)
\* ------------------------------------------------------------------------

\* C27: no operation removes an identity record: after every request each
\* record that existed before it is still in the users table under its id
\* (the table has a row for every id ever given out), and a successful
\* delete changes nothing but the active flag of its target, which it sets
\* to 0.
C27_NoHardDelete ==
    [][/\ Len(users') >= Len(users)
       /\ \A id \in 1..Len(users) :
            resp'.route # "PUT /api/admin/users/:id"
              => /\ users'[id].username = users[id].username
                 /\ users'[id].password_hash = users[id].password_hash
                 /\ users'[id].role = users[id].role
       /\ (resp'.route = "DELETE /api/admin/users/:id" /\ resp'.body = "userDeleted")
            => /\ resp'.args[1] \in 1..Len(users)
               /\ users' = [users EXCEPT ![resp'.args[1]].is_active = 0]]_vars

\* a user was deleted: its record is still in the table, inactive
C27_Witness ==
    /\ resp.route = "DELETE /api/admin/users/:id"
    /\ resp.status = 200
    /\ resp.body = "userDeleted"
    /\ resp.args[1] \in 1..Len(users)
    /\ users[resp.args[1]].username = "bob"
    /\ users[resp.args[1]].is_active = 0

\* ------------------------------------------------------------------------
\* Properties: a setup whose flag write fails (checked under Spec)
\* ------------------------------------------------------------------------

\* this step is a POST /api/setup that reached its handler with both fields
SetupAttempt ==
    /\ resp'.route = "POST /api/setup"
    /\ resp'.status # 429
    /\ resp'.args[1] # ""
    /\ resp'.args[2] # ""

\* C28: when POST /api/setup on a store without the completion flag has
\* created the administrator and the write of the flag fails, the request
\* ends with 500, the administrator stays in the users table and the system
\* is still SETUP_REQUIRED; a POST /api/setup sent after that (flag not
\* set, an administrator present) is not answered 'Setup already
\* completed': it calls createUser again, which adds another administrator
\* and completes the setup, or fails on the username already taken.
C28_FlagWriteFails ==
    [][/\ (/\ SetupAttempt
           /\ resp'.fault = "setSetting"
           /\ ~isSetupCompleted
           /\ ~UsernameTaken(resp'.args[1]))
            => /\ resp'.status = 500
               /\ resp'.body = "setupError"
               /\ users' = createUser(resp'.args[1], resp'.args[2], "admin")
               /\ settings' = settings
               /\ hasAdminUser'
               /\ ~Operational'
       /\ (/\ SetupAttempt
           /\ resp'.fault = "none"
           /\ ~isSetupCompleted
           /\ hasAdminUser)
            => /\ resp'.body # "Setup already completed"
               /\ IF UsernameTaken(resp'.args[1])
                  THEN /\ resp'.status = 500
                       /\ resp'.body = "setupError"
                       /\ users' = users
                       /\ ~Operational'
                  ELSE /\ resp'.status = 200
                       /\ users' = createUser(resp'.args[1], resp'.args[2], "admin")
                       /\ Operational']_vars

\* the flag write of a first setup failed and left its administrator behind;
\* the setup sent again under another name has created a second
\* administrator and set the flag in that one's name
C28_Witness ==
    /\ resp.route = "POST /api/setup"
    /\ resp.status = 200
    /\ Len(users) = 2
    /\ users[1].role = "admin"
    /\ users[2].role = "admin"
    /\ users[2].username = resp.args[1]
    /\ settings["setup_completed"] = [value |-> "true", updated_by |-> 2]
    /\ \A c \in Cookies : sessions[c] = NoSession
    /\ clients["generalLimiter"]["ip1"].count = 2

\* ------------------------------------------------------------------------
\* Properties: the last administrator (checked under Spec)
\* ------------------------------------------------------------------------

\* C29: once setup has completed, an active identity with role admin exists
\* in every later state: no sequence of admin operations (create, update
\* and delete user, update settings) deactivates or demotes the last active
\* administrator.
C29_LastAdminKept ==
    everOperational => hasAdminUser

\* ------------------------------------------------------------------------
\* Properties: sessions of deactivated identities (checked under SpecStale)
\* ------------------------------------------------------------------------

\* this step is a request to /api/browse or /download/* that carries a
\* session whose identity is deactivated (no session is established for an
\* inactive identity, so the session is older than the deactivation)
StaleFileRequest ==
    /\ resp'.route \in FileRoutes
    /\ sessions[resp'.cookie].userId \in 1..Len(users)
    /\ users[sessions[resp'.cookie].userId].is_active = 0

\* the request got no listing and no file, and no read stream was opened
NothingServed ==
    /\ resp'.body \notin {"listing", "file"}
    /\ \A op \in resp'.fsOps : op[1] # "createReadStream"

C31_FailedLoginKeepsSession ==
    [][(/\ resp'.route = "POST /api/auth/login"
        /\ ~(resp'.status = 200 /\ resp'.body = "loginSuccess"))
       => sessions'[resp'.cookie] = sessions[resp'.cookie]]_vars

\* ------------------------------------------------------------------------
\* Properties: the session of a former administrator (checked under Spec)
\* ------------------------------------------------------------------------

\* C32: admin authorization is decided from the role and active flag the
\* identity has in the store at the time of the request, not from the role
\* copied into the session at login: an /api/admin/ request that carries
\* the still-open session of an administrator who has been demoted or
\* deactivated is answered 403, its handler does not run and the store is
\* not changed.
C32_DemotedAdminForbidden ==
    [][(/\ resp'.route \in AdminApiRoutes
        /\ resp'.status # 429
        /\ resp'.fault = "none"
        /\ sessions[resp'.cookie].role = "admin"
        /\ ~ActiveAdminRow(sessions[resp'.cookie].userId))
       => /\ resp'.status = 403
          /\ resp'.body = "Admin privileges required"
          /\ ~NextStageRan
          /\ UNCHANGED <<users, settings, sessions>>]_vars

\* a session opened by an administrator who is now an active plain user
\* asked for an /api/admin/ operation and got 403
C32_Witness ==
    /\ resp.route \in AdminApiRoutes
    /\ resp.status = 403
    /\ sessions[resp.cookie].role = "admin"
    /\ sessions[resp.cookie].userId \in 1..Len(users)
    /\ users[sessions[resp.cookie].userId].role = "user"
    /\ users[sessions[resp.cookie].userId].is_active = 1

\* ------------------------------------------------------------------------
\* Properties: password changes (checked under SpecPassword)
\* ------------------------------------------------------------------------

\* this step is an update-user request, with a password in its body, for an
\* existing identity that got past requireAdmin
PasswordUpdate ==
    /\ resp'.route = "PUT /api/admin/users/:id"
    /\ NextStageRan
    /\ resp'.args[1] \in 1..Len(users)
    /\ "password" \in DOMAIN resp'.args[2]

\* C33: after an update-user request with a password field has been
\* answered with success, the new password validates at login for that
\* identity and the old one no longer does; and an update request whose
\* only field is the password is applied to an existing identity and not
\* answered 'User not found'.
C33_PasswordUpdateApplied ==
    [][PasswordUpdate =>
         LET id == resp'.args[1]
             new == resp'.args[2].password
         IN  /\ resp'.body = "userUpdated"
                  => /\ Compare(new, users'[id].password_hash)
                     /\ \A old \in Passwords \ {new} :
                          ~Compare(old, users'[id].password_hash)
             /\ DOMAIN resp'.args[2] = {"password"}
                  => /\ resp'.body # "User not found"
                     /\ Compare(new, users'[id].password_hash)]_vars

\* ------------------------------------------------------------------------
\* Properties: the routes under /api/auth (checked under SpecAuth)
\* ------------------------------------------------------------------------

AuthRoutes == {"POST /api/auth/login", "POST /api/auth/logout", "GET /api/auth/status"}

\* this step is a request to a route under /api/auth
AuthRequest ==
    /\ resp'.route \in AuthRoutes
    /\ now' = now
    /\ sweepDue' = sweepDue
    /\ clients' # clients

\* the request of this step was counted once in the client's window of
\* limiter l: one more in a live window, the first of a new window otherwise
CountedOnceIn(l) ==
    /\ resp'.ip \in DOMAIN clients'[l]
    /\ clients'[l][resp'.ip].count
         = IF InLiveWindow(clients[l], resp'.ip) THEN clients[l][resp'.ip].count + 1 ELSE 1

\* the request of this step came to a full window of the authentication
\* limiter: LoginMax requests are counted in it already
AuthWindowFull ==
    /\ InLiveWindow(clients["loginLimiter"], resp'.ip)
    /\ clients["loginLimiter"][resp'.ip].count >= LoginMax

\* C34 as stated: every request under /api/auth (login, logout, status) is
\* counted once in the client's window of the authentication limiter and
\* once in its window of the general-API limiter, so a login that follows
\* 10 such requests of any kind in one window is answered 429.
C34_AuthRequestsCountedTwice ==
    [][AuthRequest =>
         /\ CountedOnceIn("loginLimiter")
         /\ CountedOnceIn("generalLimiter")
         /\ (AuthWindowFull /\ resp'.route = "POST /api/auth/login")
              => resp'.status = 429]_vars

\* C34, amended: every request under /api/auth is counted once in the
\* client's window of the authentication limiter and, unless that limiter
\* rejects it, once in its window of the general-API limiter (a request the
\* authentication limiter rejects never reaches the general-API limiter);
\* a request of any of the three kinds that follows 10 of them in one
\* window is answered 429.
C34_AuthRequestsCounted ==
    [][AuthRequest =>
         /\ CountedOnceIn("loginLimiter")
         /\ IF AuthWindowFull
            THEN /\ resp'.status = 429
                 /\ clients'["generalLimiter"] = clients["generalLimiter"]
            ELSE CountedOnceIn("generalLimiter")]_vars

\* a login with the right password was answered 429 as the 11th request of
\* its window; the browser has no session, so at least one of the ten
\* requests before it was a logout
C34_Witness ==
    /\ resp.route = "POST /api/auth/login"
    /\ resp.status = 429
    /\ InLiveWindow(clients["loginLimiter"], "ip1")
    /\ clients["loginLimiter"]["ip1"].count = LoginMax + 1
    /\ sessions["k1"] = NoSession

\* ------------------------------------------------------------------------
\* Properties: the login of a deactivated identity (checked under
\* SpecStale)
\* ------------------------------------------------------------------------

\* the username belongs to an identity that is deactivated
Deactivated(username) ==
    \E id \in 1..Len(users) :
        users[id].username = username /\ users[id].is_active = 0

\* C35: a login attempt for a deactivated identity is answered as invalid
\* credentials (401), also with the correct password, and establishes no
\* session: the session of the browser stays as it was.
C35_DeactivatedLoginRefused ==
    [][(/\ resp'.route = "POST /api/auth/login"
        /\ resp'.status # 429
        /\ resp'.fault = "none"
        /\ resp'.args[2] # ""
        /\ Deactivated(resp'.args[1]))
       => /\ resp'.status = 401
          /\ resp'.body = "invalidCredentials"
          /\ "AUTH: LOGIN_SUCCESS" \notin resp'.logs
          /\ sessions' = sessions]_vars

\* bob, deactivated, sent his correct password and was answered 401
C35_Witness ==
    /\ resp.route = "POST /api/auth/login"
    /\ resp.args = <<"bob", "pw1">>
    /\ users[2].username = "bob"
    /\ users[2].is_active = 0
    /\ Compare("pw1", users[2].password_hash)
    /\ resp.status = 401

\* ------------------------------------------------------------------------
\* Properties: the setup gate on a failing store (checked under SpecGate)
\* ------------------------------------------------------------------------

\* C36: when a store read fails inside checkSetup the request is never
\* passed on to the next stage: an /api/ request is answered 500, a page
\* request is redirected to /setup, and neither requireAuth nor the handler
\* runs, whatever the setup state and the session.
C36_CheckSetupFailureStops ==
    [][(/\ resp'.route \in SetupGatedRoutes
        /\ resp'.status # 429
        /\ resp'.fault \in {"isSetupCompleted", "hasAdminUser"})
       => /\ IF IsApiPath(resp'.path)
             THEN resp'.status = 500 /\ resp'.body = "Internal server error"
             ELSE resp'.status = 302 /\ resp'.body = "redirect:/setup"
          /\ "ERROR: Setup check middleware error" \in resp'.logs
          /\ resp'.stages \cap {"requireAuth", "isValidPath", "handler"} = {}
          /\ resp'.fsOps = {}
          /\ UNCHANGED <<users, settings, sessions>>]_vars

\* setup is completed and the browser is logged in; its /api/browse was
\* answered 500 because a read of checkSetup failed
C36_Witness ==
    /\ resp.route = "GET /api/browse"
    /\ resp.fault = "isSetupCompleted"
    /\ resp.status = 500
    /\ Operational
    /\ sessions[resp.cookie] # NoSession

\* ------------------------------------------------------------------------
\* Properties: the language of a response (checked under SpecLang)
\* ------------------------------------------------------------------------

\* C37: the message of a request's response is translated to the language
\* selected for that request (query parameter, else session preference,
\* else Accept-Language, else the default), however the request interleaves
\* with other requests in flight that select another language.
C37_ResponseInSelectedLanguage ==
    i18n.answer.cookie # "" => i18n.answer.used = i18n.answer.selected

====
